---- MODULE Spec2Model ----
(***************************************************************************)
(* Collaborative Canvas: the server's stroke history (StateManager), its   *)
(* room membership (RoomManager) and the socket.io handlers of server.js   *)
(* that drive them.  Every handler runs to completion (Node's event loop), *)
(* so each handler is one action.                                          *)
(*                                                                         *)
(* JS objects are functions from field names to values; an absent field is *)
(* absent from the DOMAIN.  A generated id `stroke_${Date.now()}_${n}` is  *)
(* the pair <<Date.now(), n>> (the formatting is injective in the pair).   *)
(* A value that is "a stroke or null" is a sequence of length 0 or 1.      *)
(***************************************************************************)
EXTENDS Integers, Sequences, FiniteSets, TLC

\* ------------------------------------------------------------------ bounds
MaxStrokes == 2        \* commits per run (caps strokeIdCounter)
MaxInbox == 1          \* messages on their way to one client at a time
MaxTime == 5           \* ticks of the page's clock per run
MaxOutbox == 2         \* messages handed to the socket and not yet transmitted
MaxOps == 3            \* broadcast operations per run, where they are numbered

\* --------------------------------------------------------------- constants
SocketIds == {"s1", "s2"}                 \* socket.id of the connections
Usernames == {"HappyArtist1", "SwiftPainter2"}
Colors == {"#e74c3c"}
defaultRoom == "main"
ClockReadings == {0, 1}                   \* the values Date.now() returns

EmptyMap == <<>>                          \* new Map(), and the object {}
Null == <<>>                              \* null as "stroke or null"

VARIABLES
    roomStrokes,      \* StateManager.roomStrokes : roomId -> array of strokes
    redoStacks,       \* StateManager.redoStacks  : roomId -> userId -> array
    strokeIdCounter,  \* StateManager.strokeIdCounter
    rooms,            \* RoomManager.rooms : roomId -> user ids, insertion order
    userData,         \* the userData object of each connection handler
    conn,             \* socket -> "new" | "active" | "left"
    now,              \* Date.now() as last read (it never runs backwards)
    emitted,          \* the messages the last handler emitted, in order
    lastOp,           \* the last handler that ran: event, socket, store result
    author,           \* history variable: ref -> the socket whose message made the stroke
    undone,           \* history variable: refs removed by undo and not redone
    scen,             \* history variable: progress along the P1/P2 scenario
    crashed,          \* the server process has died of an uncaught exception
    clearedUpTo,      \* history variable: strokeIdCounter at the last clear_canvas
    inbox,            \* socket -> the messages sent to its client and not yet handled
    strokeHistory,    \* main.js strokeHistory of each socket's client
    users,            \* main.js users (Map id -> user) of each socket's client
    page,             \* one page: its WebSocketClient, its throttle closure, its clock
    order             \* history variable: the number of broadcasts so far (applied),
                      \* and per socket the number of the last one its client handled

clientVars == <<inbox, strokeHistory, users, page, order>>

vars == <<roomStrokes, redoStacks, strokeIdCounter, rooms, userData, conn, now,
          emitted, lastOp, author, undone, scen, crashed, clearedUpTo, inbox,
          strokeHistory, users, page, order>>

\* ------------------------------------------------------------- JS helpers
\* {...a, ...b}: the fields of both, b's value where both have the field
Spread(a, b) ==
    [k \in (DOMAIN a) \cup (DOMAIN b) |-> IF k \in DOMAIN b THEN b[k] ELSE a[k]]

\* array.splice(i): with no delete count, everything from i on goes
SpliceOutToEnd(arr, i) == SubSeq(arr, 1, i - 1)

\* array.splice(i, 1) seen from the array
SpliceOut(arr, i) == SubSeq(arr, 1, i - 1) \o SubSeq(arr, i + 1, Len(arr))

Last(arr) == arr[Len(arr)]
Front(arr) == SubSeq(arr, 1, Len(arr) - 1)

\* the stroke_complete payloads a client sends: the one CanvasManager.stopDrawing
\* builds, and hand-made ones carrying id / userId / username fields of their own
PlainPayload ==
    [points |-> <<1, 2>>, color |-> "#000000", width |-> 3, tool |-> "brush"]
ForgedPayload ==
    [points |-> <<1, 2>>, color |-> "#ffffff", width |-> 9, tool |-> "eraser",
     id |-> <<0, 0>>, userId |-> "s1", username |-> "Mallory"]
Payloads == {PlainPayload, ForgedPayload}

\* what a hand-made client can send instead: a stroke of one point, and the event
\* with no payload at all ({...undefined} copies nothing, as {...{}} does)
ShortPayload ==
    [points |-> <<1>>, color |-> "#000000", width |-> 3, tool |-> "brush"]
MalformedPayloads == {ShortPayload, EmptyMap}

\* the argument of a drawing_step / cursor_move handler: <<data>>, or nothing
\* when the event came with no payload (data is undefined)
NoPayload == <<>>
SegmentPayload ==
    [start |-> <<1, 1>>, end |-> <<2, 2>>, color |-> "#000000", width |-> 3,
     tool |-> "brush"]
DrawingStepArgs == {<<SegmentPayload>>, NoPayload}
CursorPayload == [x |-> 5, y |-> 7]          \* emitCursorMove: { x, y }
CursorMoveArgs == {<<CursorPayload>>, NoPayload}

\* ----------------------------------------------------------- StateManager
\* The store is the record st = [roomStrokes, redoStacks, strokeIdCounter];
\* a method is an operator from st to [st |-> the store after, ret |-> result].
Store == [roomStrokes |-> roomStrokes, redoStacks |-> redoStacks,
          strokeIdCounter |-> strokeIdCounter]

generateStrokeId(st, t) ==
    [st |-> [st EXCEPT !.strokeIdCounter = @ + 1],
     ret |-> <<t, st.strokeIdCounter + 1>>]

\* a new room started from the default room's strokes
initRoomFromDefault(st, roomId) ==
    IF roomId \notin DOMAIN st.roomStrokes
    THEN [st EXCEPT !.roomStrokes =
                        (roomId :> (IF defaultRoom \in DOMAIN @ THEN @[defaultRoom]
                                    ELSE <<>>)) @@ @,
                    !.redoStacks = (roomId :> EmptyMap) @@ @]
    ELSE st

initRoom(st, roomId) ==
    IF roomId \notin DOMAIN st.roomStrokes
    THEN [st EXCEPT !.roomStrokes = (roomId :> <<>>) @@ @,
                    !.redoStacks = (roomId :> EmptyMap) @@ @]
    ELSE st

\* the object literal { id: ..., ...strokeData, createdAt: ... }; ref is the
\* identity of the new object (the value of strokeIdCounter when it was made)
newStroke(genId, strokeData, t, ref) ==
    Spread(Spread([id |-> genId], strokeData), [createdAt |-> t, ref |-> ref])

\* addStroke that resets the redo stack of everyone in the room
addStrokeResetsAll(st, roomId, strokeData, t) ==
    LET s1 == initRoom(st, roomId)
        g == generateStrokeId(s1, t)
        stroke == newStroke(g.ret, strokeData, t, g.st.strokeIdCounter)
    IN  [st |-> [g.st EXCEPT !.roomStrokes[roomId] = Append(@, stroke),
                             !.redoStacks[roomId] = [u \in DOMAIN @ |-> <<>>]],
         ret |-> stroke]

\* addStroke without the reset of the committer's redo stack
addStrokeKeepRedo(st, roomId, strokeData, t) ==
    LET s1 == initRoom(st, roomId)
        g == generateStrokeId(s1, t)
        stroke == newStroke(g.ret, strokeData, t, g.st.strokeIdCounter)
    IN  [st |-> [g.st EXCEPT !.roomStrokes[roomId] = Append(@, stroke)],
         ret |-> stroke]

\* addStroke with unshift in place of push
addStrokeAtHead(st, roomId, strokeData, t) ==
    LET s1 == initRoom(st, roomId)
        g == generateStrokeId(s1, t)
        stroke == newStroke(g.ret, strokeData, t, g.st.strokeIdCounter)
        s2 == [g.st EXCEPT !.roomStrokes[roomId] = <<stroke>> \o @]
        redoStack == s2.redoStacks[roomId]
        s3 == IF strokeData.userId \in DOMAIN redoStack
              THEN [s2 EXCEPT !.redoStacks[roomId][strokeData.userId] = <<>>]
              ELSE s2
    IN  [st |-> s3, ret |-> stroke]

addStroke(st, roomId, strokeData, t) ==
    LET s1 == initRoom(st, roomId)
        g == generateStrokeId(s1, t)
        stroke == newStroke(g.ret, strokeData, t, g.st.strokeIdCounter)
        s2 == [g.st EXCEPT !.roomStrokes[roomId] = Append(@, stroke)]
        redoStack == s2.redoStacks[roomId]
        s3 == IF strokeData.userId \in DOMAIN redoStack
              THEN [s2 EXCEPT !.redoStacks[roomId][strokeData.userId] = <<>>]
              ELSE s2
    IN  [st |-> s3, ret |-> stroke]

\* a snapshot that misses the latest stroke
getStrokesButLast(st, roomId) ==
    LET s1 == initRoom(st, roomId)
        strokes == s1.roomStrokes[roomId]
    IN  [st |-> s1, ret |-> IF strokes = <<>> THEN <<>> ELSE Front(strokes)]

getStrokes(st, roomId) ==
    LET s1 == initRoom(st, roomId)
    IN  [st |-> s1, ret |-> s1.roomStrokes[roomId]]

\* a scan that takes the stroke at the tail whoever owns it
undoScanAnyOwner(strokes, userId, i) == i

\* a scan that starts at the head of the array
undoScanFromHead(strokes, userId, i) ==
    IF \E j \in 1..i : strokes[j].userId = userId
    THEN CHOOSE j \in 1..i : strokes[j].userId = userId
                             /\ \A m \in 1..(j - 1) : strokes[m].userId # userId
    ELSE 0

\* the loop `for (i = strokes.length - 1; i >= 0; i--)`, 1-based: the index of
\* the first stroke of userId met from the tail, 0 when the loop runs out
RECURSIVE undoScan(_, _, _)
undoScan(strokes, userId, i) ==
    IF i < 1 THEN 0
    ELSE IF strokes[i].userId = userId THEN i
    ELSE undoScan(strokes, userId, i - 1)

\* undoStroke that pushes the stroke without splicing it out
undoStrokeCopies(st, roomId, userId) ==
    LET s1 == initRoom(st, roomId)
        strokes == s1.roomStrokes[roomId]
        redoStack == s1.redoStacks[roomId]
        i == undoScan(strokes, userId, Len(strokes))
    IN  IF i = 0 THEN [st |-> s1, ret |-> Null]
        ELSE LET old == IF userId \in DOMAIN redoStack THEN redoStack[userId] ELSE <<>>
             IN  [st |-> [s1 EXCEPT !.redoStacks[roomId] =
                                       (userId :> Append(old, strokes[i])) @@ @],
                  ret |-> <<strokes[i]>>]

undoStroke(st, roomId, userId) ==
    LET s1 == initRoom(st, roomId)
        strokes == s1.roomStrokes[roomId]
        redoStack == s1.redoStacks[roomId]
        i == undoScan(strokes, userId, Len(strokes))
    IN  IF i = 0 THEN [st |-> s1, ret |-> Null]
        ELSE LET undoneStroke == strokes[i]
                 old == IF userId \in DOMAIN redoStack THEN redoStack[userId] ELSE <<>>
             IN  [st |-> [s1 EXCEPT
                            !.roomStrokes[roomId] = SpliceOut(strokes, i),
                            !.redoStacks[roomId] =
                                (userId :> Append(old, undoneStroke)) @@ @],
                  ret |-> <<undoneStroke>>]

\* redoStroke that puts the stroke back with a new creation time
redoStrokeRestamped(st, roomId, userId) ==
    LET s1 == initRoom(st, roomId)
        strokes == s1.roomStrokes[roomId]
        redoStack == s1.redoStacks[roomId]
    IN  IF userId \notin DOMAIN redoStack \/ Len(redoStack[userId]) = 0
        THEN [st |-> s1, ret |-> Null]
        ELSE LET stroke == [Last(redoStack[userId]) EXCEPT !.createdAt = @ + 1]
             IN  [st |-> [s1 EXCEPT
                            !.redoStacks[roomId][userId] = Front(@),
                            !.roomStrokes[roomId] = Append(strokes, stroke)],
                  ret |-> <<stroke>>]

\* redoStroke with unshift in place of push: the stroke comes back at the head
redoStrokeAtHead(st, roomId, userId) ==
    LET s1 == initRoom(st, roomId)
        strokes == s1.roomStrokes[roomId]
        redoStack == s1.redoStacks[roomId]
    IN  IF userId \notin DOMAIN redoStack \/ Len(redoStack[userId]) = 0
        THEN [st |-> s1, ret |-> Null]
        ELSE LET stroke == Last(redoStack[userId])
             IN  [st |-> [s1 EXCEPT
                            !.redoStacks[roomId][userId] = Front(@),
                            !.roomStrokes[roomId] = <<stroke>> \o strokes],
                  ret |-> <<stroke>>]

\* redoStroke with shift in place of pop: the oldest undone stroke comes back
redoStrokeOldestFirst(st, roomId, userId) ==
    LET s1 == initRoom(st, roomId)
        strokes == s1.roomStrokes[roomId]
        redoStack == s1.redoStacks[roomId]
    IN  IF userId \notin DOMAIN redoStack \/ Len(redoStack[userId]) = 0
        THEN [st |-> s1, ret |-> Null]
        ELSE LET stroke == Head(redoStack[userId])
             IN  [st |-> [s1 EXCEPT
                            !.redoStacks[roomId][userId] = Tail(@),
                            !.roomStrokes[roomId] = Append(strokes, stroke)],
                  ret |-> <<stroke>>]

redoStroke(st, roomId, userId) ==
    LET s1 == initRoom(st, roomId)
        strokes == s1.roomStrokes[roomId]
        redoStack == s1.redoStacks[roomId]
    IN  IF userId \notin DOMAIN redoStack \/ Len(redoStack[userId]) = 0
        THEN [st |-> s1, ret |-> Null]
        ELSE LET stroke == Last(redoStack[userId])
             IN  [st |-> [s1 EXCEPT
                            !.redoStacks[roomId][userId] = Front(@),
                            !.roomStrokes[roomId] = Append(strokes, stroke)],
                  ret |-> <<stroke>>]

\* a clear that can be taken back: the strokes go to their owners' redo stacks
clearStrokesUndoable(st, roomId) ==
    LET s1 == initRoom(st, roomId)
        strokes == s1.roomStrokes[roomId]
        owners == {strokes[i].userId : i \in 1..Len(strokes)}
    IN  [st |-> [s1 EXCEPT !.roomStrokes[roomId] = <<>>,
                           !.redoStacks[roomId] =
                               [u \in owners |->
                                   SelectSeq(strokes, LAMBDA x : x.userId = u)]],
         ret |-> Null]

\* clearStrokes that forgets to replace the redo stacks
clearStrokesKeepRedo(st, roomId) ==
    LET s1 == initRoom(st, roomId)
    IN  [st |-> [s1 EXCEPT !.roomStrokes[roomId] = <<>>], ret |-> Null]

\* every room emptied, not the one named
clearStrokesAllRooms(st, roomId) ==
    LET s1 == initRoom(st, roomId)
    IN  [st |-> [s1 EXCEPT !.roomStrokes = [r \in DOMAIN @ |-> <<>>],
                           !.redoStacks = [r \in DOMAIN @ |-> EmptyMap]],
         ret |-> Null]

\* a clear that starts the stroke ids over
clearStrokesResetsCounter(st, roomId) ==
    LET s1 == initRoom(st, roomId)
    IN  [st |-> [s1 EXCEPT !.roomStrokes[roomId] = <<>>,
                           !.redoStacks[roomId] = EmptyMap,
                           !.strokeIdCounter = 0],
         ret |-> Null]

clearStrokes(st, roomId) ==
    LET s1 == initRoom(st, roomId)
    IN  [st |-> [s1 EXCEPT !.roomStrokes[roomId] = <<>>,
                           !.redoStacks[roomId] = EmptyMap],
         ret |-> Null]

\* a search from the tail: the last stroke with the id
findIndexFromTail(strokes, strokeId) ==
    IF \E i \in 1..Len(strokes) : strokes[i].id = strokeId
    THEN CHOOSE i \in 1..Len(strokes) :
             /\ strokes[i].id = strokeId
             /\ \A j \in (i + 1)..Len(strokes) : strokes[j].id # strokeId
    ELSE 0

\* strokes.findIndex(s => s.id === strokeId), 1-based; 0 stands for -1
findIndex(strokes, strokeId) ==
    IF \E i \in 1..Len(strokes) : strokes[i].id = strokeId
    THEN CHOOSE i \in 1..Len(strokes) :
             /\ strokes[i].id = strokeId
             /\ \A j \in 1..(i - 1) : strokes[j].id # strokeId
    ELSE 0

removeStroke(st, roomId, strokeId) ==
    LET s1 == initRoom(st, roomId)
        strokes == s1.roomStrokes[roomId]
        index == findIndex(strokes, strokeId)
    IN  IF index # 0
        THEN [st |-> [s1 EXCEPT !.roomStrokes[roomId] = SpliceOut(strokes, index)],
              ret |-> TRUE]
        ELSE [st |-> s1, ret |-> FALSE]

\* the participant's undone strokes put back into the history as it goes
cleanupUserHistoryRestores(st, roomId, userId) ==
    IF roomId \in DOMAIN st.redoStacks
    THEN [st |-> [st EXCEPT
                    !.roomStrokes[roomId] =
                        @ \o (IF userId \in DOMAIN st.redoStacks[roomId]
                              THEN st.redoStacks[roomId][userId] ELSE <<>>),
                    !.redoStacks[roomId] = [u \in (DOMAIN @) \ {userId} |-> @[u]]],
          ret |-> Null]
    ELSE [st |-> st, ret |-> Null]

\* every participant's redo stack of the room dropped
cleanupUserHistoryDropsAll(st, roomId, userId) ==
    IF roomId \in DOMAIN st.redoStacks
    THEN [st |-> [st EXCEPT !.redoStacks[roomId] = EmptyMap], ret |-> Null]
    ELSE [st |-> st, ret |-> Null]

\* the participant's redo stack left where it is
cleanupUserHistoryKeeps(st, roomId, userId) == [st |-> st, ret |-> Null]

cleanupUserHistory(st, roomId, userId) ==
    IF roomId \in DOMAIN st.redoStacks
    THEN [st |-> [st EXCEPT !.redoStacks[roomId] =
                     [u \in (DOMAIN @) \ {userId} |-> @[u]]],
          ret |-> Null]
    ELSE [st |-> st, ret |-> Null]

\* ------------------------------------------------------------ RoomManager
\* rooms[roomId] lists the keys of the room's Map in insertion order; the value
\* stored under a key is the connection's userData object itself.
createRoom(rm, roomId) ==
    IF roomId \notin DOMAIN rm THEN (roomId :> <<>>) @@ rm ELSE rm

\* a second entry for a user already in the room
addUserAppends(rm, roomId, user) ==
    LET r1 == IF roomId \notin DOMAIN rm THEN createRoom(rm, roomId) ELSE rm
    IN  [r1 EXCEPT ![roomId] = Append(r1[roomId], user.id)]

addUser(rm, roomId, user) ==
    LET r1 == IF roomId \notin DOMAIN rm THEN createRoom(rm, roomId) ELSE rm
        room == r1[roomId]
    IN  IF \E i \in 1..Len(room) : room[i] = user.id
        THEN r1
        ELSE [r1 EXCEPT ![roomId] = Append(room, user.id)]

\* true whenever the room is known
removeUserOfAnyone(rm, roomId, userId) ==
    IF roomId \notin DOMAIN rm THEN [rm |-> rm, ret |-> FALSE]
    ELSE LET left == SelectSeq(rm[roomId], LAMBDA u : u # userId)
         IN  [rm |-> IF Len(left) = 0
                     THEN [r \in (DOMAIN rm) \ {roomId} |-> rm[r]]
                     ELSE [rm EXCEPT ![roomId] = left],
              ret |-> TRUE]

\* the room kept once its last user is gone
removeUserKeepsRoom(rm, roomId, userId) ==
    IF roomId \notin DOMAIN rm THEN [rm |-> rm, ret |-> FALSE]
    ELSE LET room == rm[roomId]
             left == SelectSeq(room, LAMBDA u : u # userId)
         IN  IF \E i \in 1..Len(room) : room[i] = userId
             THEN [rm |-> [rm EXCEPT ![roomId] = left], ret |-> TRUE]
             ELSE [rm |-> rm, ret |-> FALSE]

removeUser(rm, roomId, userId) ==
    IF roomId \notin DOMAIN rm THEN [rm |-> rm, ret |-> FALSE]
    ELSE LET room == rm[roomId]
             left == SelectSeq(room, LAMBDA u : u # userId)
         IN  IF \E i \in 1..Len(room) : room[i] = userId
             THEN [rm |-> IF Len(left) = 0
                          THEN [r \in (DOMAIN rm) \ {roomId} |-> rm[r]]
                          ELSE [rm EXCEPT ![roomId] = left],
                   ret |-> TRUE]
             ELSE [rm |-> rm, ret |-> FALSE]

roomExists(rm, roomId) == roomId \in DOMAIN rm

getUsers(rm, ud, roomId) ==
    IF roomId \notin DOMAIN rm THEN <<>>
    ELSE [i \in 1..Len(rm[roomId]) |-> ud[rm[roomId][i]]]

\* ------------------------------------------------------------- socket.io
\* the sockets in the socket.io room: joined in the connection handler, taken
\* out by the library before 'disconnect' fires
InRoom == {s \in DOMAIN conn : conn[s] = "active"}

Msg(event, to, data) == [event |-> event, to |-> to, data |-> data]

\* io.to(room) where socket.to(room) stands: the sender is a recipient too
toEveryone(s) == InRoom \cup {s}

\* the relay left out
toNobody(s) == {}

\* socket.to(room): the sockets in the room other than the sender
toOthers(s) == InRoom \ {s}

\* room ids handed to the managers: the server's one room and one nobody joined
RoomIds == {defaultRoom, "lobby"}

\* the keys of a room's Map; none when the registry has no such room
Members(rm, roomId) ==
    IF roomId \in DOMAIN rm THEN {rm[roomId][i] : i \in 1..Len(rm[roomId])} ELSE {}

\* the room history and a participant's redo stack, as the accessors see them
History == IF defaultRoom \in DOMAIN roomStrokes THEN roomStrokes[defaultRoom] ELSE <<>>
RedoIn(rd, u) ==
    IF defaultRoom \in DOMAIN rd /\ u \in DOMAIN rd[defaultRoom]
    THEN rd[defaultRoom][u] ELSE <<>>
RedoOf(u) == RedoIn(redoStacks, u)

SetStore(st) ==
    /\ roomStrokes' = st.roomStrokes
    /\ redoStacks' = st.redoStacks
    /\ strokeIdCounter' = st.strokeIdCounter

\* the scenario "P1 commits S1, P2 commits S2, P1 undo, P2 undo, P1 redo": k is the
\* number of its steps the run so far consists of (connections aside), -1 once
\* the run has left it
ScenStart == [k |-> 0, p1 |-> "none", p2 |-> "none", S1 |-> Null, S2 |-> Null]
ScenOff == [k |-> -1, p1 |-> "none", p2 |-> "none", S1 |-> Null, S2 |-> Null]

\* ---------------------------------------------------------------- server.js
newUserData(s, name, color) ==
    [id |-> s, username |-> name, color |-> color,
     cursorX |-> 0, cursorY |-> 0, isDrawing |-> FALSE]

\* the spread written last, so that the client's fields win
strokeCompleteDataClientWins(data, s, name, t) ==
    Spread([userId |-> s, username |-> name, timestamp |-> t], data)

\* stroke_complete: { ...data, userId: socket.id, username: ..., timestamp: ... }
strokeCompleteData(data, s, name, t) ==
    Spread(data, [userId |-> s, username |-> name, timestamp |-> t])

\* the snapshot taken from the store as it was before the undo
emitUndoStrokeStale(st, undoneStroke, s) ==
    IF undoneStroke # Null
    THEN <<Msg("undo_stroke", InRoom,
               [strokeId |-> undoneStroke[1].id, userId |-> s,
                allStrokes |-> getStrokes(Store, defaultRoom).ret])>>
    ELSE <<>>

\* undo: if (undoneStroke) io.to(defaultRoom).emit('undo_stroke', {...}); st is
\* the store as undoStroke left it, which getStrokes reads in the same handler
emitUndoStroke(st, undoneStroke, s) ==
    IF undoneStroke # Null
    THEN <<Msg("undo_stroke", InRoom,
               [strokeId |-> undoneStroke[1].id, userId |-> s,
                allStrokes |-> getStrokes(st, defaultRoom).ret])>>
    ELSE <<>>

\* redo_stroke sent with socket.to(room): it passes the sender by
emitRedoStrokeToOthers(st, redoneStroke, s) ==
    IF redoneStroke # Null
    THEN <<Msg("redo_stroke", toOthers(s),
               [stroke |-> redoneStroke[1], userId |-> s,
                allStrokes |-> getStrokes(st, defaultRoom).ret])>>
    ELSE <<>>

\* the broadcast made whether or not a stroke came back
emitRedoStrokeAlways(st, redoneStroke, s) ==
    <<Msg("redo_stroke", InRoom,
          [stroke |-> redoneStroke, userId |-> s,
           allStrokes |-> getStrokes(st, defaultRoom).ret])>>

\* redo: if (redoneStroke) io.to(defaultRoom).emit('redo_stroke', {...})
emitRedoStroke(st, redoneStroke, s) ==
    IF redoneStroke # Null
    THEN <<Msg("redo_stroke", InRoom,
               [stroke |-> redoneStroke[1], userId |-> s,
                allStrokes |-> getStrokes(st, defaultRoom).ret])>>
    ELSE <<>>

\* what io.to(defaultRoom).emit('stroke_saved', ...) is given
strokeSavedPayload(strokeData, stroke) == strokeData

\* ------------------------------------------------- one page (client side)
\* pg.connected is WebSocketClient.connected and pg.inThrottle the variable of
\* the closure throttle() returns (undefined at first, which tests as false);
\* pg.timer is the pending setTimeout, as the time it is due or Null; pg.outbox
\* holds what socket.emit was given.  History fields: socketEvent (the last of
\* the socket's 'connect' / 'disconnect' events), invokedAt (when the throttled
\* function last ran), lastCall (the last call the page made, whether it went
\* through, and a bit that flips on every call).
ThrottleLimit == 2                        \* the 50 ms of main.js, in ticks
CursorAt == [x |-> 5, y |-> 7]

pageInit ==
    [connected |-> FALSE, socketEvent |-> "none", outbox |-> <<>>,
     inThrottle |-> FALSE, timer |-> Null, clock |-> 0, invokedAt |-> Null,
     lastCall |-> [op |-> "none", ran |-> FALSE, seq |-> 0]]

\* this.socket.on('connect') / this.socket.on('disconnect')
onConnect(pg) == [pg EXCEPT !.connected = TRUE]
onDisconnect(pg) == [pg EXCEPT !.connected = FALSE]

\* this.socket.emit(event, data)
socketEmit(pg, event, data) ==
    [pg EXCEPT !.outbox = Append(@, [event |-> event, data |-> data])]

emitDrawingStep(pg, data) ==
    IF ~pg.connected THEN pg ELSE socketEmit(pg, "drawing_step", <<data>>)
emitStrokeComplete(pg, data) ==
    IF ~pg.connected THEN pg ELSE socketEmit(pg, "stroke_complete", <<data>>)
emitCursorMove(pg, x, y) ==
    IF ~pg.connected THEN pg ELSE socketEmit(pg, "cursor_move", <<[x |-> x, y |-> y]>>)

\* emitUndo that leaves the message with the socket while not connected
emitUndoUnguarded(pg) == socketEmit(pg, "undo", NoPayload)

emitUndo(pg) ==
    IF ~pg.connected THEN pg ELSE socketEmit(pg, "undo", NoPayload)
emitRedo(pg) ==
    IF ~pg.connected THEN pg ELSE socketEmit(pg, "redo", NoPayload)
emitClearCanvas(pg) ==
    IF ~pg.connected THEN pg ELSE socketEmit(pg, "clear_canvas", NoPayload)

\* a throttle whose timer is set but whose flag is never raised
throttleUnlatched(pg, coords) ==
    [emitCursorMove(pg, coords.x, coords.y) EXCEPT
        !.timer = <<pg.clock + ThrottleLimit>>,
        !.invokedAt = <<pg.clock>>]

\* the function throttle(func, limit) returns, func being the arrow function
\* main.js passes: (coords) => wsClient.emitCursorMove(coords.x, coords.y)
throttle(pg, coords) ==
    IF ~pg.inThrottle
    THEN [emitCursorMove(pg, coords.x, coords.y) EXCEPT
             !.inThrottle = TRUE,
             !.timer = <<pg.clock + ThrottleLimit>>,
             !.invokedAt = <<pg.clock>>]
    ELSE pg

\* () => inThrottle = false
throttleTimeout(pg) == [pg EXCEPT !.inThrottle = FALSE, !.timer = Null]

Init ==
    /\ roomStrokes = EmptyMap
    /\ redoStacks = EmptyMap
    /\ strokeIdCounter = 0
    /\ rooms = EmptyMap
    /\ userData = EmptyMap
    /\ conn = [s \in SocketIds |-> "new"]
    /\ now = 0
    /\ emitted = <<>>
    /\ lastOp = [op |-> "none", user |-> "none", ret |-> Null]
    /\ author = <<>>
    /\ undone = {}
    /\ scen = ScenStart
    /\ crashed = FALSE
    /\ clearedUpTo = 0
    /\ inbox = [c \in SocketIds |-> <<>>]
    /\ strokeHistory = [c \in SocketIds |-> <<>>]
    /\ users = [c \in SocketIds |-> EmptyMap]
    /\ page = pageInit
    /\ order = [applied |-> 0, seen |-> [c \in DOMAIN conn |-> 0]]

\* io.on('connection')
Connection(s) ==
    /\ conn[s] = "new"
    /\ \E name \in Usernames, color \in Colors :
        LET ud == newUserData(s, name, color)
            g == getStrokes(Store, defaultRoom)
        IN  /\ conn' = [conn EXCEPT ![s] = "active"]
            /\ rooms' = addUser(rooms, defaultRoom, ud)
            /\ userData' = (s :> ud) @@ userData
            /\ SetStore(g.st)
            /\ emitted' =
                 <<Msg("init", {s},
                       [userId |-> s, username |-> name, userColor |-> color,
                        strokes |-> g.ret,
                        users |-> getUsers(rooms', userData', defaultRoom)]),
                   Msg("user_joined", toOthers(s), ud)>>
            /\ lastOp' = [op |-> "connection", user |-> s, ret |-> Null]
    /\ UNCHANGED <<now, author, undone, scen, crashed, clearedUpTo>>

\* socket.on('stroke_complete'); the handler is the only one that reads the clock,
\* which has advanced by any amount since the last reading
StrokeComplete(s, data) ==
    /\ conn[s] = "active"
    /\ strokeIdCounter < MaxStrokes
    /\ now' \in {t \in ClockReadings : t >= now}
    /\ LET strokeData == strokeCompleteData(data, s, userData[s].username, now')
           a == addStroke(Store, defaultRoom, strokeData, now')
       IN  /\ SetStore(a.st)
           /\ emitted' = <<Msg("stroke_saved", InRoom,
                               strokeSavedPayload(strokeData, a.ret))>>
           /\ lastOp' = [op |-> "stroke_complete", user |-> s, ret |-> <<a.ret>>]
           /\ author' = Append(author, s)
           /\ scen' = IF scen.k = 0
                      THEN [scen EXCEPT !.k = 1, !.p1 = s, !.S1 = <<a.ret>>]
                      ELSE IF scen.k = 1 /\ s # scen.p1
                      THEN [scen EXCEPT !.k = 2, !.p2 = s, !.S2 = <<a.ret>>]
                      ELSE ScenOff
    /\ UNCHANGED <<rooms, userData, conn, undone, crashed, clearedUpTo>>

\* socket.on('undo')
Undo(s) ==
    /\ conn[s] = "active"
    /\ LET u == undoStroke(Store, defaultRoom, s)
       IN  /\ SetStore(u.st)
           /\ emitted' = emitUndoStroke(u.st, u.ret, s)
           /\ lastOp' = [op |-> "undo", user |-> s, ret |-> u.ret]
           /\ undone' = IF u.ret # Null THEN undone \cup {u.ret[1].ref} ELSE undone
    /\ scen' = IF scen.k = 2 /\ s = scen.p1 THEN [scen EXCEPT !.k = 3]
               ELSE IF scen.k = 3 /\ s = scen.p2 THEN [scen EXCEPT !.k = 4]
               ELSE ScenOff
    /\ UNCHANGED <<rooms, userData, conn, now, author, crashed, clearedUpTo>>

\* socket.on('redo')
Redo(s) ==
    /\ conn[s] = "active"
    /\ LET r == redoStroke(Store, defaultRoom, s)
       IN  /\ SetStore(r.st)
           /\ emitted' = emitRedoStroke(r.st, r.ret, s)
           /\ lastOp' = [op |-> "redo", user |-> s, ret |-> r.ret]
           /\ undone' = IF r.ret # Null THEN undone \ {r.ret[1].ref} ELSE undone
    /\ scen' = IF scen.k = 4 /\ s = scen.p1 THEN [scen EXCEPT !.k = 5] ELSE ScenOff
    /\ UNCHANGED <<rooms, userData, conn, now, author, crashed, clearedUpTo>>

\* socket.on('clear_canvas')
ClearCanvas(s) ==
    /\ conn[s] = "active"
    /\ LET c == clearStrokes(Store, defaultRoom)
       IN  /\ SetStore(c.st)
           /\ emitted' = <<Msg("canvas_cleared", InRoom,
                               [userId |-> s, username |-> userData[s].username])>>
           /\ lastOp' = [op |-> "clear_canvas", user |-> s, ret |-> Null]
    /\ scen' = ScenOff
    /\ clearedUpTo' = strokeIdCounter
    /\ UNCHANGED <<rooms, userData, conn, now, author, undone, crashed>>

\* socket.on('disconnect')
Disconnect(s) ==
    /\ conn[s] = "active"
    /\ LET rem == removeUser(rooms, defaultRoom, s)
           c == cleanupUserHistory(Store, defaultRoom, s)
       IN  /\ rooms' = rem.rm
           /\ SetStore(c.st)
           /\ conn' = [conn EXCEPT ![s] = "left"]
           /\ emitted' = <<Msg("user_left", toOthers(s),
                               [userId |-> s, username |-> userData[s].username])>>
           /\ lastOp' = [op |-> "disconnect", user |-> s, ret |-> Null]
    /\ scen' = ScenOff
    /\ UNCHANGED <<userData, now, author, undone, crashed, clearedUpTo>>

\* socket.on('drawing_step'): relayed to the others, nothing stored
DrawingStep(s, data) ==
    /\ conn[s] = "active"
    /\ now' \in {t \in ClockReadings : t >= now}
    /\ LET strokeData == Spread(IF data = NoPayload THEN EmptyMap ELSE data[1],
                                [userId |-> s, timestamp |-> now'])
       IN  emitted' = <<Msg("drawing_step", toOthers(s), strokeData)>>
    /\ lastOp' = [op |-> "drawing_step", user |-> s, ret |-> Null]
    /\ UNCHANGED <<roomStrokes, redoStacks, strokeIdCounter, rooms, userData, conn,
                   author, undone, scen, crashed, clearedUpTo>>

\* the position written, and the drawing flag raised with it
moveCursorAndDraw(ud, data) ==
    [ud EXCEPT !.cursorX = data.x, !.cursorY = data.y, !.isDrawing = TRUE]

\* userData.cursorX = data.x; userData.cursorY = data.y: the object written to
\* is the one RoomManager holds for the connection
moveCursor(ud, data) == [ud EXCEPT !.cursorX = data.x, !.cursorY = data.y]

\* socket.on('cursor_move'): `data.x` throws a TypeError when data is undefined;
\* nothing in the handler or around it catches the exception, so the process
\* ends with it
CursorMove(s, data) ==
    /\ conn[s] = "active"
    /\ IF data = NoPayload
       THEN /\ crashed' = TRUE
            /\ emitted' = <<>>
            /\ UNCHANGED userData
       ELSE /\ userData' = [userData EXCEPT ![s] = moveCursor(@, data[1])]
            /\ emitted' = <<Msg("cursor_update", toOthers(s),
                                [userId |-> s, username |-> userData[s].username,
                                 color |-> userData[s].color,
                                 x |-> data[1].x, y |-> data[1].y])>>
            /\ UNCHANGED crashed
    /\ lastOp' = [op |-> "cursor_move", user |-> s, ret |-> Null]
    /\ UNCHANGED <<roomStrokes, redoStacks, strokeIdCounter, rooms, conn, now,
                   author, undone, scen, clearedUpTo>>

\* a step of the server alone: no client handles a message
NoClient == UNCHANGED clientVars

\* the server fed by clients that send what main.js sends
Next ==
    \/ \E s \in SocketIds : Connection(s) /\ NoClient
    \/ \E s \in SocketIds, data \in Payloads : StrokeComplete(s, data) /\ NoClient
    \/ \E s \in SocketIds : Undo(s) /\ NoClient
    \/ \E s \in SocketIds : Redo(s) /\ NoClient
    \/ \E s \in SocketIds : ClearCanvas(s) /\ NoClient
    \/ \E s \in SocketIds : Disconnect(s) /\ NoClient

Spec == Init /\ [][Next]_vars

\* commits and undos only (no redo, no clear)
NextCU ==
    \/ \E s \in SocketIds : Connection(s) /\ NoClient
    \/ \E s \in SocketIds, data \in Payloads : StrokeComplete(s, data) /\ NoClient
    \/ \E s \in SocketIds : Undo(s) /\ NoClient
    \/ \E s \in SocketIds : Disconnect(s) /\ NoClient

SpecCU == Init /\ [][NextCU]_vars

\* the server fed by a client of another make: strokes of one point or with no
\* fields, drawing_step and cursor_move with no payload.  Once the process has
\* died no handler runs.
NextMalformed ==
    \/ \E s \in SocketIds : ~crashed /\ Connection(s) /\ NoClient
    \/ \E s \in SocketIds, data \in {PlainPayload} \cup MalformedPayloads :
           ~crashed /\ StrokeComplete(s, data) /\ NoClient
    \/ \E s \in SocketIds : ~crashed /\ Undo(s) /\ NoClient
    \/ \E s \in SocketIds : ~crashed /\ Redo(s) /\ NoClient
    \/ \E s \in SocketIds : ~crashed /\ ClearCanvas(s) /\ NoClient
    \/ \E s \in SocketIds : ~crashed /\ Disconnect(s) /\ NoClient
    \/ \E s \in SocketIds : ~crashed /\ DrawingStep(s, NoPayload) /\ NoClient
    \/ \E s \in SocketIds : ~crashed /\ CursorMove(s, NoPayload) /\ NoClient

SpecMalformed == Init /\ [][NextMalformed]_vars

\* the server fed by main.js clients that also draw and move the pointer
NextRelay ==
    \/ \E s \in SocketIds : Connection(s) /\ NoClient
    \/ \E s \in SocketIds : StrokeComplete(s, PlainPayload) /\ NoClient
    \/ \E s \in SocketIds : Undo(s) /\ NoClient
    \/ \E s \in SocketIds : Disconnect(s) /\ NoClient
    \/ \E s \in SocketIds : DrawingStep(s, <<SegmentPayload>>) /\ NoClient
    \/ \E s \in SocketIds : CursorMove(s, <<CursorPayload>>) /\ NoClient

SpecRelay == Init /\ [][NextRelay]_vars

\* ------------------------------------------------------------------ main.js
\* the callbacks of setupWebSocketCallbacks, as functions of the client's state
\* cl = [strokeHistory, users]; the canvas itself and the notifications are not
\* modelled.  WebSocketClient hands 'stroke_saved' to callbacks.onStrokeSaved,
\* which main.js never sets, so that message changes nothing.
\* an init handler without the test user.id !== data.userId
onInitListsSelf(cl, data) ==
    LET ids == {data.users[i].id : i \in 1..Len(data.users)}
        userOf(id) == data.users[CHOOSE i \in 1..Len(data.users) : data.users[i].id = id]
    IN  [strokeHistory |-> data.strokes,
         users |-> [id \in ids \cup DOMAIN cl.users |->
                       IF id \in ids THEN userOf(id) ELSE cl.users[id]]]

onInit(cl, data) ==
    LET others == {i \in 1..Len(data.users) : data.users[i].id # data.userId}
        ids == {data.users[i].id : i \in others}
        userOf(id) == data.users[CHOOSE i \in others : data.users[i].id = id]
    IN  [strokeHistory |-> data.strokes,
         users |-> [id \in ids \cup DOMAIN cl.users |->
                       IF id \in ids THEN userOf(id) ELSE cl.users[id]]]

onMessage(cl, m) ==
    CASE m.event = "init" -> onInit(cl, m.data)
      [] m.event = "user_joined" ->
            [cl EXCEPT !.users = (m.data.id :> m.data) @@ @]
      [] m.event = "user_left" ->
            [cl EXCEPT !.users = [id \in (DOMAIN @) \ {m.data.userId} |-> @[id]]]
      [] m.event \in {"undo_stroke", "redo_stroke"} ->
            [cl EXCEPT !.strokeHistory = m.data.allStrokes]
      [] m.event = "canvas_cleared" -> [cl EXCEPT !.strokeHistory = <<>>]
      [] OTHER -> cl

\* the client of socket c handles the next message that reached it
Handle(c) ==
    /\ conn[c] = "active"
    /\ inbox[c] # <<>>
    /\ LET cl == onMessage([strokeHistory |-> strokeHistory[c], users |-> users[c]],
                           Head(inbox[c]))
       IN  /\ strokeHistory' = [strokeHistory EXCEPT ![c] = cl.strokeHistory]
           /\ users' = [users EXCEPT ![c] = cl.users]
    /\ inbox' = [inbox EXCEPT ![c] = Tail(@)]
    /\ UNCHANGED <<roomStrokes, redoStacks, strokeIdCounter, rooms, userData, conn,
                   now, emitted, lastOp, author, undone, scen, crashed, clearedUpTo,
                   page>>

ClientHandle(c) == Handle(c) /\ UNCHANGED order

\* what the handler emitted goes on its way to each recipient, in order; what
\* was on its way to a socket that is gone is lost
Deliver(msgs) ==
    /\ inbox' = [c \in DOMAIN inbox |->
                    IF conn'[c] = "active"
                    THEN inbox[c] \o SelectSeq(msgs, LAMBDA m : c \in m.to)
                    ELSE <<>>]
    /\ \A c \in DOMAIN inbox : Len(inbox'[c]) <= MaxInbox
    /\ UNCHANGED <<strokeHistory, users, page>>

Send == Deliver(emitted') /\ UNCHANGED order

\* the server and its clients
NextSync ==
    \/ \E s \in SocketIds : Connection(s) /\ Send
    \/ \E s \in SocketIds : StrokeComplete(s, PlainPayload) /\ Send
    \/ \E s \in SocketIds : Undo(s) /\ Send
    \/ \E s \in SocketIds : Redo(s) /\ Send
    \/ \E s \in SocketIds : ClearCanvas(s) /\ Send
    \/ \E s \in SocketIds : Disconnect(s) /\ Send
    \/ \E c \in SocketIds : ClientHandle(c)

SpecSync == Init /\ [][NextSync]_vars

\* The server and its clients with the broadcasts numbered.  stroke_saved,
\* undo_stroke, redo_stroke and canvas_cleared are the messages that tell of a
\* change of the history; the n-th of them travels with seq = n, every other
\* message with the number of the last broadcast before it (asOf).  A client
\* notes the number of the last broadcast it handled.
Broadcasts == {"stroke_saved", "undo_stroke", "redo_stroke", "canvas_cleared"}
IsBroadcast(msgs) == \E i \in 1..Len(msgs) : msgs[i].event \in Broadcasts

Numbered(msgs, n) ==
    [i \in 1..Len(msgs) |->
        Spread(msgs[i], IF msgs[i].event \in Broadcasts
                        THEN [seq |-> n + 1] ELSE [asOf |-> n])]

SendNumbered ==
    /\ IsBroadcast(emitted') => order.applied < MaxOps
    /\ Deliver(Numbered(emitted', order.applied))
    /\ order' = [order EXCEPT !.applied = IF IsBroadcast(emitted') THEN @ + 1 ELSE @]

HandleNumbered(c) ==
    /\ Handle(c)
    /\ LET m == Head(inbox[c])
       IN  order' = [order EXCEPT !.seen[c] = IF m.event \in Broadcasts THEN m.seq
                                              ELSE IF m.event = "init" THEN m.asOf
                                              ELSE @]

\* the runs in which generateUsername() gives each socket one name and the
\* clock reads the same throughout
OneName(s) == userData'[s].username = (IF s = "s1" THEN "HappyArtist1" ELSE "SwiftPainter2")

NextOrder ==
    \/ \E s \in SocketIds : Connection(s) /\ OneName(s) /\ SendNumbered
    \/ \E s \in SocketIds : StrokeComplete(s, PlainPayload) /\ now' = now /\ SendNumbered
    \/ \E s \in SocketIds : Undo(s) /\ SendNumbered
    \/ \E s \in SocketIds : Redo(s) /\ SendNumbered
    \/ \E s \in SocketIds : ClearCanvas(s) /\ SendNumbered
    \/ \E s \in SocketIds : Disconnect(s) /\ SendNumbered
    \/ \E c \in SocketIds : HandleNumbered(c)

SpecOrder == Init /\ [][NextOrder]_vars

\* a client handles what has reached it: socket.io calls the listener of every
\* message that arrives
SpecOrderFair == SpecOrder /\ \A c \in SocketIds : WF_vars(HandleNumbered(c))

\* A page that loses its connection and gets it back.  socket.io's client
\* (reconnection: true) reconnects on its own; the server sees a connection with
\* a new socket.id, while the page keeps its listeners, its users Map and its
\* strokeHistory.  The page that opens "s1" comes back as "s3" once the server
\* has seen "s1" go; "s2" is another page.
FirstSocket == "s1"
NextSocket == "s3"
ReconnectIds == SocketIds \cup {NextSocket}

InitReconnect ==
    /\ roomStrokes = EmptyMap
    /\ redoStacks = EmptyMap
    /\ strokeIdCounter = 0
    /\ rooms = EmptyMap
    /\ userData = EmptyMap
    /\ conn = [s \in ReconnectIds |-> "new"]
    /\ now = 0
    /\ emitted = <<>>
    /\ lastOp = [op |-> "none", user |-> "none", ret |-> Null]
    /\ author = <<>>
    /\ undone = {}
    /\ scen = ScenStart
    /\ crashed = FALSE
    /\ clearedUpTo = 0
    /\ inbox = [c \in ReconnectIds |-> <<>>]
    /\ strokeHistory = [c \in ReconnectIds |-> <<>>]
    /\ users = [c \in ReconnectIds |-> EmptyMap]
    /\ page = pageInit
    /\ order = [applied |-> 0, seen |-> [c \in DOMAIN conn |-> 0]]

\* the messages go on their way as in Send; the page's state moves to its new socket
Resume(old, new) ==
    /\ inbox' = [c \in DOMAIN inbox |->
                    IF conn'[c] = "active"
                    THEN inbox[c] \o SelectSeq(emitted', LAMBDA m : c \in m.to)
                    ELSE <<>>]
    /\ \A c \in DOMAIN inbox : Len(inbox'[c]) <= MaxInbox
    /\ strokeHistory' = [strokeHistory EXCEPT ![new] = strokeHistory[old]]
    /\ users' = [users EXCEPT ![new] = users[old]]
    /\ UNCHANGED <<page, order>>

Reconnect ==
    /\ conn[FirstSocket] = "left"
    /\ Connection(NextSocket)
    /\ Resume(FirstSocket, NextSocket)

NextReconnect ==
    \/ \E s \in SocketIds : Connection(s) /\ Send
    \/ \E s \in SocketIds : StrokeComplete(s, PlainPayload) /\ Send
    \/ \E s \in ReconnectIds : Disconnect(s) /\ Send
    \/ Reconnect
    \/ \E c \in ReconnectIds : ClientHandle(c)

SpecReconnect == InitReconnect /\ [][NextReconnect]_vars

\* One page on its own: the socket's events, the calls main.js makes on the
\* WebSocketClient, mouse moves through the throttled onCursorMove, the clock
\* and the timer.  A timer fires when it is due or later, never earlier; the
\* socket transmits what it was given, oldest first.
serverVars == <<roomStrokes, redoStacks, strokeIdCounter, rooms, userData, conn, now,
                emitted, lastOp, author, undone, scen, crashed, clearedUpTo>>

PageStep(pg) ==
    /\ page' = pg
    /\ UNCHANGED <<serverVars, inbox, strokeHistory, users, order>>

PageCall(op, pg, ran) ==
    /\ Len(page.outbox) < MaxOutbox
    /\ PageStep([pg EXCEPT !.lastCall =
                    [op |-> op, ran |-> ran, seq |-> 1 - page.lastCall.seq]])

SocketConnect == PageStep([onConnect(page) EXCEPT !.socketEvent = "connect"])
SocketDisconnect == PageStep([onDisconnect(page) EXCEPT !.socketEvent = "disconnect"])
SocketTransmit ==
    /\ page.outbox # <<>>
    /\ PageStep([page EXCEPT !.outbox = Tail(@)])

EmitCall(op) ==
    LET pg == CASE op = "emitDrawingStep" -> emitDrawingStep(page, SegmentPayload)
                [] op = "emitStrokeComplete" -> emitStrokeComplete(page, PlainPayload)
                [] op = "emitUndo" -> emitUndo(page)
                [] op = "emitRedo" -> emitRedo(page)
                [] op = "emitClearCanvas" -> emitClearCanvas(page)
    IN  PageCall(op, pg, pg.outbox # page.outbox)

OnCursorMove ==
    LET pg == throttle(page, CursorAt)
    IN  PageCall("onCursorMove", pg, pg.invokedAt # page.invokedAt \/ pg.timer # page.timer)

Tick ==
    /\ page.clock < MaxTime
    /\ PageStep([page EXCEPT !.clock = @ + 1])

TimerFires ==
    /\ page.timer # Null
    /\ page.clock >= page.timer[1]
    /\ PageStep(throttleTimeout(page))

NextPage ==
    \/ SocketConnect
    \/ SocketDisconnect
    \/ SocketTransmit
    \/ EmitCall("emitDrawingStep")
    \/ EmitCall("emitStrokeComplete")
    \/ EmitCall("emitUndo")
    \/ EmitCall("emitRedo")
    \/ EmitCall("emitClearCanvas")
    \/ OnCursorMove
    \/ Tick
    \/ TimerFires

SpecPage == Init /\ [][NextPage]_vars

\* RoomManager and StateManager on their own, their methods called in any order
\* for any room and participant: joining twice, leaving a room one is not in,
\* undoing in a room never drawn in.  A participant is one user object,
\* whichever rooms it is added to.
Profile(u) ==
    newUserData(u, IF u = "s1" THEN "HappyArtist1" ELSE "SwiftPainter2", "#e74c3c")

AddUser(roomId, u) ==
    /\ rooms' = addUser(rooms, roomId, Profile(u))
    /\ UNCHANGED <<roomStrokes, redoStacks, strokeIdCounter, userData, conn, now,
                   emitted, author, undone, scen, crashed, clearedUpTo, clientVars>>

RemoveUser(roomId, u) ==
    /\ rooms' = removeUser(rooms, roomId, u).rm
    /\ UNCHANGED <<roomStrokes, redoStacks, strokeIdCounter, userData, conn, now,
                   emitted, author, undone, scen, crashed, clearedUpTo, clientVars>>

\* (the calls of a run fall within one reading of the clock)
AddStroke(roomId, u, data) ==
    /\ strokeIdCounter < MaxStrokes
    /\ SetStore(addStroke(Store, roomId, Spread(data, [userId |-> u]), now).st)
    /\ author' = Append(author, u)
    /\ UNCHANGED <<rooms, userData, conn, now, emitted, undone, scen, crashed, clearedUpTo,
                   clientVars>>

\* getStrokes, undoStroke, redoStroke, clearStrokes, cleanupUserHistory
StoreCall(op, roomId, u) ==
    /\ SetStore((CASE op = "getStrokes" -> getStrokes(Store, roomId)
                   [] op = "undoStroke" -> undoStroke(Store, roomId, u)
                   [] op = "redoStroke" -> redoStroke(Store, roomId, u)
                   [] op = "clearStrokes" -> clearStrokes(Store, roomId)
                   [] op = "cleanupUserHistory" -> cleanupUserHistory(Store, roomId, u)).st)
    /\ UNCHANGED <<rooms, userData, conn, now, emitted, author, undone, scen,
                   crashed, clearedUpTo, clientVars>>

\* the call and what it returned, kept in lastOp
Called(op, roomId, u, ret) ==
    lastOp' = [op |-> op, user |-> u, ret |-> ret, room |-> roomId]

NextRegistry ==
    \/ \E roomId \in RoomIds, u \in SocketIds :
           AddUser(roomId, u) /\ Called("addUser", roomId, u, Null)
    \/ \E roomId \in RoomIds, u \in SocketIds :
           RemoveUser(roomId, u)
           /\ Called("removeUser", roomId, u, <<removeUser(rooms, roomId, u).ret>>)

SpecRegistry == Init /\ [][NextRegistry]_vars

\* both managers, the room of the call kept in lastOp
CalledOn(roomId) == Called("call", roomId, "none", Null)

NextManagers ==
    \/ \E roomId \in RoomIds, u \in SocketIds :
           AddStroke(roomId, u, PlainPayload) /\ CalledOn(roomId)
    \/ \E roomId \in RoomIds, u \in SocketIds :
           StoreCall("getStrokes", roomId, u) /\ CalledOn(roomId)
    \/ \E roomId \in RoomIds, u \in SocketIds :
           StoreCall("undoStroke", roomId, u) /\ CalledOn(roomId)
    \/ \E roomId \in RoomIds, u \in SocketIds :
           StoreCall("redoStroke", roomId, u) /\ CalledOn(roomId)
    \/ \E roomId \in RoomIds, u \in SocketIds :
           StoreCall("clearStrokes", roomId, u) /\ CalledOn(roomId)
    \/ \E roomId \in RoomIds, u \in SocketIds :
           StoreCall("cleanupUserHistory", roomId, u) /\ CalledOn(roomId)
    \/ \E roomId \in RoomIds, u \in SocketIds : AddUser(roomId, u) /\ CalledOn(roomId)
    \/ \E roomId \in RoomIds, u \in SocketIds : RemoveUser(roomId, u) /\ CalledOn(roomId)

SpecManagers == Init /\ [][NextManagers]_vars

\* removeStroke among commits and undos.  No handler of server.js calls it; it
\* is called here with the ids strokes can have, a client-supplied id among
\* them (two strokes may carry it), and with an id no stroke has.
StrokeIdsTried == {<<0, 1>>, <<0, 2>>, ForgedPayload.id, <<9, 9>>}

RemoveStroke(roomId, strokeId) ==
    /\ SetStore(removeStroke(Store, roomId, strokeId).st)
    /\ UNCHANGED <<rooms, userData, conn, now, emitted, author, undone, scen,
                   crashed, clearedUpTo, clientVars>>

NextRemove ==
    \/ \E u \in SocketIds, data \in Payloads :
           AddStroke(defaultRoom, u, data) /\ Called("addStroke", defaultRoom, u, Null)
    \/ \E u \in SocketIds :
           StoreCall("undoStroke", defaultRoom, u)
           /\ Called("undoStroke", defaultRoom, u, Null)
    \/ \E roomId \in RoomIds, strokeId \in StrokeIdsTried :
           RemoveStroke(roomId, strokeId)
           /\ Called("removeStroke", roomId, strokeId,
                     <<removeStroke(Store, roomId, strokeId).ret>>)

SpecRemove == Init /\ [][NextRemove]_vars

TypeOK ==
    /\ strokeIdCounter \in 0..MaxStrokes
    /\ now \in ClockReadings
    /\ DOMAIN roomStrokes = DOMAIN redoStacks
    /\ Len(author) = strokeIdCounter
    /\ scen.k \in -1..5
    /\ crashed \in BOOLEAN
    /\ clearedUpTo \in 0..strokeIdCounter
    /\ \A c \in SocketIds : Len(inbox[c]) <= MaxInbox

\* ==================================================================== claims
OwnedBy(H, p) == SelectSeq(H, LAMBDA x : x.userId = p)
NotOwnedBy(H, p) == SelectSeq(H, LAMBDA x : x.userId # p)
Refs(H) == [i \in 1..Len(H) |-> H[i].ref]

\* C1: undo is strictly per-owner.  Every undo step by p leaves the strokes of
\* every other owner in the history as they were; when p owns a stroke it removes
\* exactly p's stroke closest to the tail and returns it; when p owns none it
\* returns null and leaves the history unchanged.
C1_UndoPerOwner ==
    [][lastOp'.op = "undo" =>
        LET p == lastOp'.user
            H == History
            H2 == History'
        IN  /\ NotOwnedBy(H2, p) = NotOwnedBy(H, p)
            /\ OwnedBy(H, p) = <<>> => H2 = H /\ lastOp'.ret = Null
            /\ OwnedBy(H, p) # <<>> =>
                 /\ OwnedBy(H2, p) = Front(OwnedBy(H, p))
                 /\ lastOp'.ret = <<Last(OwnedBy(H, p))>>
                 /\ Len(H2) = Len(H) - 1]_vars

\* reached: an undo removed a stroke while a later stroke of another participant
\* stays in the history
C1_Witness ==
    /\ lastOp.op = "undo"
    /\ lastOp.ret # Null
    /\ \E i \in 1..Len(History) :
          /\ History[i].userId # lastOp.user
          /\ History[i].ref > lastOp.ret[1].ref

\* C2: a successful undo deletes one element and nothing else: the history after
\* it is the history before it with the returned stroke cut out at one index.
C2_UndoDeletesOne ==
    [][lastOp'.op = "undo" /\ lastOp'.ret # Null =>
        \E i \in 1..Len(History) :
            /\ History[i] = lastOp'.ret[1]
            /\ History' = SubSeq(History, 1, i - 1) \o SubSeq(History, i + 1, Len(History))]_vars

\* reached: an undo cut out the head of a two-stroke history and the other
\* stroke, committed later by the same participant or another, is what is left
C2_Witness ==
    /\ lastOp.op = "undo"
    /\ lastOp.ret # Null
    /\ strokeIdCounter = 2
    /\ undone = {1}
    /\ Refs(History) = <<2>>

\* C3: from an empty room, P1 commits S1, P2 commits S2, P1 undo, P2 undo,
\* P1 redo yields the histories [S1,S2], [S2], [], [S1].
C3_Scenario ==
    /\ scen.k = 1 => History = scen.S1
    /\ scen.k = 2 => /\ History = scen.S1 \o scen.S2
                     /\ scen.S1[1].userId = scen.p1
                     /\ scen.S2[1].userId = scen.p2
    /\ scen.k = 3 => History = scen.S2
    /\ scen.k = 4 => History = <<>>
    /\ scen.k = 5 => History = scen.S1

\* reached: the whole scenario has run
C3_Witness == scen.k = 5 /\ scen.p1 # scen.p2 /\ Len(History) = 1

\* C4: a redo by p with a non-empty redo stack pops the top of p's stack and
\* appends it at the tail of the history; the stroke on top is the very record
\* undo took out of the history, and no step changes a stroke that waits in a
\* redo stack, so the restored stroke has the fields it had when it was undone.
C4_RedoRestoresAtTail ==
    [][/\ (lastOp'.op = "redo" /\ RedoOf(lastOp'.user) # <<>>) =>
            LET p == lastOp'.user
                x == Last(RedoOf(p))
            IN  /\ lastOp'.ret = <<x>>
                /\ History' = Append(History, x)
                /\ RedoIn(redoStacks', p) = Front(RedoOf(p))
       /\ (lastOp'.op = "undo" /\ lastOp'.ret # Null) =>
            /\ RedoIn(redoStacks', lastOp'.user)
                 = Append(RedoOf(lastOp'.user), lastOp'.ret[1])
            /\ \E i \in 1..Len(History) : History[i] = lastOp'.ret[1]
       /\ \A u \in SocketIds :
            \A i \in 1..Len(RedoOf(u)) :
                i <= Len(RedoIn(redoStacks', u))
                    => RedoIn(redoStacks', u)[i] = RedoOf(u)[i]]_vars

\* reached: a redo put a stroke behind a stroke another participant committed
\* after it
C4_Witness ==
    /\ lastOp.op = "redo"
    /\ lastOp.ret # Null
    /\ Len(History) >= 2
    /\ Last(History) = lastOp.ret[1]
    /\ History[Len(History) - 1].ref > lastOp.ret[1].ref
    /\ History[Len(History) - 1].userId # lastOp.user

\* C5: a commit by p leaves p's redo stack empty, and a redo by p right after
\* p's commit returns null, leaves the history unchanged and emits nothing.
C5_CommitDiscardsRedo ==
    [][/\ lastOp'.op = "stroke_complete" => RedoIn(redoStacks', lastOp'.user) = <<>>
       /\ (lastOp.op = "stroke_complete" /\ lastOp'.op = "redo"
             /\ lastOp'.user = lastOp.user) =>
            /\ lastOp'.ret = Null
            /\ History' = History
            /\ emitted' = <<>>]_vars

\* reached: p committed while a stroke p had undone was waiting to be redone
C5_Witness ==
    /\ lastOp.op = "stroke_complete"
    /\ \E r \in undone : author[r] = lastOp.user
    /\ conn[lastOp.user] = "active"
    /\ RedoOf(lastOp.user) = <<>>

\* C6: after clear the history is empty and no participant has a redo stack, and
\* a redo right after the clear returns null and leaves the history empty.
C6_ClearEmptiesAll ==
    [][/\ lastOp'.op = "clear_canvas" =>
            /\ History' = <<>>
            /\ redoStacks'[defaultRoom] = EmptyMap
       /\ (lastOp.op = "clear_canvas" /\ lastOp'.op = "redo") =>
            /\ lastOp'.ret = Null
            /\ History' = <<>>]_vars

\* reached: a clear ran after strokes had been committed and undone
C6_Witness ==
    /\ lastOp.op = "clear_canvas"
    /\ undone # {}
    /\ Cardinality(undone) < strokeIdCounter
    /\ History = <<>>

\* C7: with commits and undos only, the history is the list of the committed
\* strokes that are not undone, in the order of their commits.
Committed == [i \in 1..strokeIdCounter |-> i]
C7_HistoryIsCommitLog ==
    Refs(History) = SelectSeq(Committed, LAMBDA r : r \notin undone)

\* reached: commits of two participants, one of them undone from under the other
C7_Witness ==
    /\ strokeIdCounter = 2
    /\ undone = {1}
    /\ Len(History) = 1
    /\ author[1] # author[2]

\* C8: no two strokes of the history carry the same id.
C8_UniqueIds ==
    \A i, j \in 1..Len(History) : i # j => History[i].id # History[j].id

\* C9: every stroke in the history or in a redo stack carries the socket id and
\* the username of the connection whose stroke_complete message made it.
StoredStrokes ==
    {History[i] : i \in 1..Len(History)}
    \cup UNION {{redoStacks[defaultRoom][u][i] : i \in 1..Len(redoStacks[defaultRoom][u])} :
                  u \in IF defaultRoom \in DOMAIN redoStacks
                        THEN DOMAIN redoStacks[defaultRoom] ELSE {}}
C9_Attribution ==
    \A x \in StoredStrokes :
        /\ x.userId = author[x.ref]
        /\ x.username = userData[author[x.ref]].username

\* reached: a stored stroke made from a payload that names another participant
C9_Witness ==
    \E x \in StoredStrokes :
        /\ x.color = ForgedPayload.color
        /\ author[x.ref] # ForgedPayload.userId
        /\ x.userId = author[x.ref]

\* C10: the stroke_saved message of a commit carries the id of the stroke the
\* commit appended to the history, and goes to every member, the committer too.
C10_StrokeSavedIsFinalized ==
    lastOp.op = "stroke_complete" =>
        /\ Len(emitted) = 1
        /\ emitted[1].event = "stroke_saved"
        /\ emitted[1].to = InRoom
        /\ lastOp.user \in emitted[1].to
        /\ "id" \in DOMAIN emitted[1].data
        /\ emitted[1].data.id = Last(History).id

\* C11: every successful undo or redo broadcasts one message to every member of
\* the room, the requester included, and the history it carries is the whole
\* room history as it is right after that operation, nothing having run between
\* the mutation and the snapshot.
C11_UndoRedoBroadcast ==
    (lastOp.op \in {"undo", "redo"} /\ lastOp.ret # Null) =>
        /\ Len(emitted) = 1
        /\ emitted[1].event = (IF lastOp.op = "undo" THEN "undo_stroke" ELSE "redo_stroke")
        /\ emitted[1].to = InRoom
        /\ lastOp.user \in emitted[1].to
        /\ emitted[1].data.userId = lastOp.user
        /\ emitted[1].data.allStrokes = History

C11_Witness ==
    /\ lastOp.op = "undo"
    /\ lastOp.ret # Null
    /\ Cardinality(InRoom) = 2
    /\ Len(History) = 1
    /\ Len(emitted) = 1
    /\ emitted[1].data.allStrokes = History

\* C12: the no-op conditions change nothing and send nothing.  An undo by a
\* participant who owns no stroke in the history and a redo by a participant
\* whose redo stack is empty or absent return null, leave the history, every
\* redo stack and the membership as they were and emit no message; removing a
\* participant from a room of which it is not a member returns false and leaves
\* the registry as it was.
C12_LeaveOfNonMember ==
    \A r \in RoomIds, u \in SocketIds :
        u \notin Members(rooms, r) => removeUser(rooms, r, u) = [rm |-> rooms, ret |-> FALSE]

C12_NoOpsChangeNothing ==
    /\ []C12_LeaveOfNonMember
    /\ [][/\ ((lastOp'.op = "undo" /\ OwnedBy(History, lastOp'.user) = <<>>)
                   => lastOp'.ret = Null)
           /\ ((lastOp'.op = "redo" /\ RedoOf(lastOp'.user) = <<>>)
                   => lastOp'.ret = Null)
           /\ ((lastOp'.op \in {"undo", "redo"} /\ lastOp'.ret = Null)
                   => (/\ History' = History
                       /\ \A u \in SocketIds : RedoIn(redoStacks', u) = RedoOf(u)
                       /\ rooms' = rooms
                       /\ emitted' = <<>>))]_vars

\* a redo that found nothing, requested while another member holds a redo stack
\* and a stroke is in the history
C12_Witness ==
    /\ lastOp.op = "redo"
    /\ lastOp.ret = Null
    /\ emitted = <<>>
    /\ Len(History) = 1
    /\ \E u \in InRoom \ {lastOp.user} : Len(RedoOf(u)) = 1
    /\ removeUser(rooms, "lobby", lastOp.user).ret = FALSE

\* what stopDrawing sends: the four fields, and a path of more than one point
WellFormedStroke(x) ==
    /\ {"points", "color", "width", "tool"} \subseteq DOMAIN x
    /\ Len(x.points) >= 2

\* C13: a stroke_complete with fewer than two points or with required fields
\* missing is rejected on entry: the step appends nothing to the history,
\* changes no redo stack and emits no stroke_saved.
C13_MalformedCommitRejected ==
    [][(lastOp'.op = "stroke_complete" /\ ~WellFormedStroke(lastOp'.ret[1]))
          => (/\ History' = History
              /\ redoStacks' = redoStacks
              /\ emitted' = <<>>)]_vars

\* C14: no message of one participant, however malformed, brings the server
\* down or changes the history, the redo stacks or the membership the others
\* see.  Stated for stroke_complete, drawing_step and cursor_move sent with no
\* payload, and for a one-point stroke.
MalformedStep ==
    \/ lastOp'.op \in {"drawing_step", "cursor_move"}
    \/ lastOp'.op = "stroke_complete" /\ ~WellFormedStroke(lastOp'.ret[1])

C14_MalformedIsHarmless ==
    [][MalformedStep
          => (/\ ~crashed'
              /\ History' = History
              /\ \A u \in SocketIds \ {lastOp'.user} : RedoIn(redoStacks', u) = RedoOf(u)
              /\ rooms' = rooms)]_vars

\* C15: a participant who joins a room that has no member (none yet, or the last
\* one has left) receives an init snapshot whose history is empty.
C15_EmptyRoomForgets ==
    (lastOp.op = "connection" /\ Members(rooms, defaultRoom) = {lastOp.user}) =>
        /\ emitted[1].event = "init"
        /\ emitted[1].data.strokes = <<>>

\* C16: in every state the registry reaches through joins and leaves, a room
\* exists exactly when it has at least one member; it does not exist before
\* anyone joined it nor after its last member left.
C16_ExistsIffMember ==
    \A r \in RoomIds : roomExists(rooms, r) <=> (Members(rooms, r) # {})

\* the last member of one room has just left it while the other room has members
C16_Witness ==
    /\ lastOp.op = "removeUser"
    /\ lastOp.room = defaultRoom
    /\ lastOp.ret = <<TRUE>>
    /\ ~roomExists(rooms, defaultRoom)
    /\ Cardinality(Members(rooms, "lobby")) = 2

\* a room's history, redo stacks and membership as the accessors give them
HistoryIn(rs, r) == IF r \in DOMAIN rs THEN rs[r] ELSE <<>>
RedoAt(rd, r, u) == IF r \in DOMAIN rd /\ u \in DOMAIN rd[r] THEN rd[r][u] ELSE <<>>
MemberList(rm, r) == IF r \in DOMAIN rm THEN rm[r] ELSE <<>>

OtherRoomsUntouched(A) ==
    \A B \in RoomIds \ {A} :
        /\ HistoryIn(roomStrokes', B) = HistoryIn(roomStrokes, B)
        /\ \A u \in SocketIds : RedoAt(redoStacks', B, u) = RedoAt(redoStacks, B, u)
        /\ MemberList(rooms', B) = MemberList(rooms, B)

\* C17: rooms are isolated.  A commit, undo, redo, clear, forget, join or leave
\* applied to room A leaves the history, every redo stack and the membership of
\* every other room as they were.
C17_RoomsIsolated ==
    [][OtherRoomsUntouched(lastOp'.room)]_vars

\* both rooms hold something: one a stroke and a member, the other a redo stack
\* and a member
C17_Witness ==
    /\ Len(HistoryIn(roomStrokes, defaultRoom)) = 1
    /\ Members(rooms, defaultRoom) = {"s1"}
    /\ Len(RedoAt(redoStacks, "lobby", "s2")) = 1
    /\ Members(rooms, "lobby") = {"s2"}

\* C18: clients converge on the server's history.  Whenever every message the
\* server has emitted has been delivered and handled, the strokeHistory of
\* every connected client equals the server's history of the room.
C18_ClientsConverge ==
    (\A c \in InRoom : inbox[c] = <<>>) =>
        \A c \in InRoom : strokeHistory[c] = History

\* C19: joining runs once per connection and in this order: the participant is
\* registered in the room; an init snapshot holding the whole membership and
\* the whole room history of that moment goes to the new participant only;
\* then user_joined goes to every other member and not to the joiner.
C19_JoinSequence ==
    [][/\ \A s \in SocketIds : conn'[s] = "new" => conn[s] = "new"
       /\ lastOp'.op = "connection" =>
            LET s == lastOp'.user
            IN  /\ conn[s] = "new" /\ conn'[s] = "active"
                /\ s \notin Members(rooms, defaultRoom)
                /\ Members(rooms', defaultRoom) = Members(rooms, defaultRoom) \cup {s}
                /\ Len(emitted') = 2
                /\ emitted'[1].event = "init"
                /\ emitted'[1].to = {s}
                /\ emitted'[1].data.userId = s
                /\ [i \in 1..Len(emitted'[1].data.users) |-> emitted'[1].data.users[i].id]
                      = MemberList(rooms', defaultRoom)
                /\ emitted'[1].data.strokes = History'
                /\ History' = History
                /\ emitted'[2].event = "user_joined"
                /\ emitted'[2].to = Members(rooms, defaultRoom)
                /\ s \notin emitted'[2].to
                /\ emitted'[2].data.id = s]_vars

\* a second participant has joined a room that holds a stroke
C19_Witness ==
    /\ lastOp.op = "connection"
    /\ Cardinality(Members(rooms, defaultRoom)) = 2
    /\ Len(History) = 1
    /\ emitted[1].data.strokes = History
    /\ Len(emitted[1].data.users) = 2
    /\ emitted[2].to # {}

\* C20: the cleanup of a connection runs once, on its disconnect: the
\* participant is taken out of the membership, its redo stack is discarded and
\* user_left goes to the members that remain, whatever the participant did
\* before; from then on it is in no membership and has no redo stack.
C20_LeftCleanup ==
    [][/\ \A s \in SocketIds : conn[s] = "left" => conn'[s] = "left"
       /\ lastOp'.op = "disconnect" =>
            LET s == lastOp'.user
            IN  /\ conn[s] = "active" /\ conn'[s] = "left"
                /\ Members(rooms', defaultRoom) = Members(rooms, defaultRoom) \ {s}
                /\ \A u \in SocketIds \ {s} : RedoIn(redoStacks', u) = RedoOf(u)
                /\ History' = History
                /\ Len(emitted') = 1
                /\ emitted'[1].event = "user_left"
                /\ emitted'[1].to = Members(rooms', defaultRoom)
                /\ emitted'[1].data.userId = s
       /\ \A s \in SocketIds : conn'[s] = "left" =>
            /\ \A r \in RoomIds : s \notin Members(rooms', r)
            /\ \A r \in DOMAIN redoStacks' : s \notin DOMAIN redoStacks'[r]]_vars

\* a participant with an undone stroke of its own has disconnected and another
\* member remains
C20_Witness ==
    /\ lastOp.op = "disconnect"
    /\ \E ref \in undone : author[ref] = lastOp.user
    /\ Cardinality(InRoom) = 1
    /\ emitted[1].to = InRoom
    /\ \A u \in SocketIds : RedoOf(u) = <<>>

\* C21: forgetting participant p discards p's redo stack and nothing else: the
\* room history, p's own strokes in it included, and the redo stack of every
\* other participant stay as they are.  Stated of cleanupUserHistory applied
\* to any reachable store and of the disconnect step that calls it.
C21_ForgetOnStore ==
    \A p \in SocketIds :
        LET c == cleanupUserHistory(Store, defaultRoom, p).st
        IN  /\ c.roomStrokes = roomStrokes
            /\ c.strokeIdCounter = strokeIdCounter
            /\ RedoIn(c.redoStacks, p) = <<>>
            /\ \A u \in SocketIds \ {p} : RedoIn(c.redoStacks, u) = RedoOf(u)

C21_ForgetFrame ==
    /\ []C21_ForgetOnStore
    /\ [][lastOp'.op = "disconnect" =>
            (/\ roomStrokes' = roomStrokes
             /\ OwnedBy(History', lastOp'.user) = OwnedBy(History, lastOp'.user)
             /\ RedoIn(redoStacks', lastOp'.user) = <<>>
             /\ \A u \in SocketIds \ {lastOp'.user} :
                    RedoIn(redoStacks', u) = RedoOf(u))]_vars

\* the participant who left has a stroke in the history, under its id and name,
\* and the member who stays has a redo stack
C21_Witness ==
    /\ lastOp.op = "disconnect"
    /\ Len(History) = 1
    /\ History[1].userId = lastOp.user
    /\ History[1].username = userData[lastOp.user].username
    /\ \E u \in InRoom : Len(RedoOf(u)) = 1

\* C22: a drawing_step is relayed, with the sender's id, to every other member
\* of the room and never to the sender, and it is not stored: the history,
\* every redo stack, the stroke-id counter and the registry stay as they are.
C22_SegmentRelayedNotStored ==
    [][lastOp'.op = "drawing_step" =>
          (/\ Len(emitted') = 1
           /\ emitted'[1].event = "drawing_step"
           /\ emitted'[1].to = Members(rooms, defaultRoom) \ {lastOp'.user}
           /\ lastOp'.user \notin emitted'[1].to
           /\ emitted'[1].data.userId = lastOp'.user
           /\ \A k \in DOMAIN SegmentPayload : emitted'[1].data[k] = SegmentPayload[k]
           /\ roomStrokes' = roomStrokes
           /\ redoStacks' = redoStacks
           /\ strokeIdCounter' = strokeIdCounter
           /\ rooms' = rooms
           /\ userData' = userData)]_vars

\* a segment relayed to the other member while the room holds a stroke and a
\* redo stack
C22_Witness ==
    /\ lastOp.op = "drawing_step"
    /\ emitted[1].to = InRoom \ {lastOp.user}
    /\ Cardinality(emitted[1].to) = 1
    /\ Len(History) = 1
    /\ \E u \in SocketIds : Len(RedoOf(u)) = 1

C24_ClearIsIrreversible ==
    /\ \A i \in 1..Len(History) : History[i].ref > clearedUpTo
    /\ \A u \in SocketIds :
          \A i \in 1..Len(RedoOf(u)) : RedoOf(u)[i].ref > clearedUpTo

\* a stroke was committed and undone, the canvas cleared, another stroke
\* committed; the first stroke's author asks for a redo and gets nothing
C24_Witness ==
    /\ clearedUpTo = 1
    /\ 1 \in undone
    /\ lastOp.op = "redo"
    /\ lastOp.user = author[1]
    /\ lastOp.ret = Null
    /\ Refs(History) = <<2>>

\* C25: on a room the store has never seen, no method fails and each behaves
\* as on an empty history: getStrokes returns the empty array, undoStroke and
\* redoStroke return null, clearStrokes leaves an empty history and addStroke a
\* history of exactly the new stroke; no redo stack appears.
C25_OnFreshRoom ==
    \A r \in RoomIds, u \in SocketIds :
        r \notin DOMAIN roomStrokes =>
            LET g == getStrokes(Store, r)
                un == undoStroke(Store, r, u)
                re == redoStroke(Store, r, u)
                cl == clearStrokes(Store, r)
                a == addStroke(Store, r, Spread(PlainPayload, [userId |-> u]), now)
            IN  /\ g.ret = <<>>
                /\ un.ret = Null /\ HistoryIn(un.st.roomStrokes, r) = <<>>
                /\ re.ret = Null /\ HistoryIn(re.st.roomStrokes, r) = <<>>
                /\ HistoryIn(cl.st.roomStrokes, r) = <<>>
                /\ HistoryIn(a.st.roomStrokes, r) = <<a.ret>>
                /\ \A x \in {g, un, re, cl, a}, v \in SocketIds :
                      RedoAt(x.st.redoStacks, r, v) = <<>>

C25_LazyInit ==
    /\ []C25_OnFreshRoom
    /\ [][lastOp'.room \notin DOMAIN roomStrokes =>
            (/\ Len(HistoryIn(roomStrokes', lastOp'.room))
                   = strokeIdCounter' - strokeIdCounter
             /\ \A v \in SocketIds : RedoAt(redoStacks', lastOp'.room, v) = <<>>)]_vars

\* one room has a stroke; the other was first touched by a call that found
\* nothing, and now exists with an empty history
C25_Witness ==
    /\ lastOp.op = "call"
    /\ lastOp.room = "lobby"
    /\ "lobby" \in DOMAIN roomStrokes
    /\ roomStrokes["lobby"] = <<>>
    /\ Len(HistoryIn(roomStrokes, defaultRoom)) = 1
    /\ strokeIdCounter = 1

\* C26: removeUser(roomId, userId) returns true exactly when userId was in the
\* room before the call.  When it was not (or the room is unknown) the call
\* returns false and the registry is as it was; when it was, it is out of the
\* room and the others stay in their order; when it was the last one the room
\* is deleted.
C26_LeaveReportsMembership ==
    [][lastOp'.op = "removeUser" =>
        LET r == lastOp'.room
            u == lastOp'.user
            was == u \in Members(rooms, r)
        IN  /\ lastOp'.ret = <<was>>
            /\ (~was => rooms' = rooms)
            /\ (was => MemberList(rooms', r)
                          = SelectSeq(MemberList(rooms, r), LAMBDA m : m # u))
            /\ (Members(rooms, r) = {u} => ~roomExists(rooms', r))
            /\ (Members(rooms, r) \ {u} # {} => roomExists(rooms', r))
            /\ \A B \in RoomIds \ {r} : MemberList(rooms', B) = MemberList(rooms, B)]_vars

\* a member has left a room that another member keeps open, while the other
\* room is unknown to the registry
C26_Witness ==
    /\ lastOp.op = "removeUser"
    /\ lastOp.room = "lobby"
    /\ lastOp.ret = <<TRUE>>
    /\ Members(rooms, "lobby") = SocketIds \ {lastOp.user}
    /\ ~roomExists(rooms, defaultRoom)

\* C27: addUser(roomId, userData) never fails and is idempotent on membership.
\* The room exists afterwards, the user is in it under exactly one key, the
\* other members are as they were and in their order, and adding the same user
\* again changes nothing.
C27_JoinIsIdempotent ==
    [][lastOp'.op = "addUser" =>
        LET r == lastOp'.room
            u == lastOp'.user
            after == MemberList(rooms', r)
        IN  /\ roomExists(rooms', r)
            /\ Cardinality({i \in 1..Len(after) : after[i] = u}) = 1
            /\ Members(rooms', r) = Members(rooms, r) \cup {u}
            /\ SelectSeq(after, LAMBDA m : m # u)
                  = SelectSeq(MemberList(rooms, r), LAMBDA m : m # u)
            /\ (u \in Members(rooms, r) => rooms' = rooms)
            /\ addUser(rooms', r, Profile(u)) = rooms'
            /\ \A B \in RoomIds \ {r} : MemberList(rooms', B) = MemberList(rooms, B)]_vars

\* the user that has just been added was already in the room, ahead of a user
\* that came after it
C27_Witness ==
    /\ lastOp.op = "addUser"
    /\ lastOp.room = defaultRoom
    /\ Len(MemberList(rooms, defaultRoom)) = 2
    /\ MemberList(rooms, defaultRoom)[1] = lastOp.user

\* k calls of undoStroke / redoStroke by p on the default room
RECURSIVE UndoTimes(_, _, _)
UndoTimes(st, p, k) ==
    IF k = 0 THEN st ELSE UndoTimes(undoStroke(st, defaultRoom, p).st, p, k - 1)
RECURSIVE RedoTimes(_, _, _)
RedoTimes(st, p, k) ==
    IF k = 0 THEN st ELSE RedoTimes(redoStroke(st, defaultRoom, p).st, p, k - 1)
Reversed(arr) == [i \in 1..Len(arr) |-> arr[Len(arr) + 1 - i]]
Increasing(ns) == \A i, j \in 1..Len(ns) : i < j => ns[i] < ns[j]

\* C28: the redo stack of p holds only strokes of p that an undo of p took out
\* of the history, last undone on top.  In every state each stroke on p's stack
\* carries p's userId, was committed by p and is not in the history; p's strokes
\* in the history followed by p's stack read from the top are in commit order;
\* k undos by p followed by k redos by p take p's last k strokes out, stack them
\* in reverse, and append them again in their original order, leaving the stack
\* as it was.  A stack grows only by the stroke p's own undo has just removed and
\* shrinks by one only through p's own redo, which appends the top stroke.
C28_StackHoldsOwnUndone ==
    \A p \in SocketIds :
        LET stack == RedoOf(p)
            own == OwnedBy(History, p)
            n == Len(own)
        IN  /\ \A i \in 1..Len(stack) :
                  /\ stack[i].userId = p
                  /\ author[stack[i].ref] = p
                  /\ stack[i].ref \in undone
                  /\ \A j \in 1..Len(History) : History[j].ref # stack[i].ref
            /\ Increasing(Refs(own) \o Reversed(Refs(stack)))
            /\ \A k \in 0..n :
                  LET lastK == SubSeq(own, n - k + 1, n)
                      rest == SelectSeq(History, LAMBDA x :
                                  \A i \in 1..k : lastK[i].ref # x.ref)
                      u == UndoTimes(Store, p, k)
                      r == RedoTimes(u, p, k)
                  IN  /\ HistoryIn(u.roomStrokes, defaultRoom) = rest
                      /\ RedoIn(u.redoStacks, p) = stack \o Reversed(lastK)
                      /\ HistoryIn(r.roomStrokes, defaultRoom) = rest \o lastK
                      /\ RedoIn(r.redoStacks, p) = stack

C28_RedoStackIsLIFO ==
    /\ []C28_StackHoldsOwnUndone
    /\ [][\A p \in SocketIds :
            RedoIn(redoStacks', p) # RedoOf(p) =>
                \/ RedoIn(redoStacks', p) = <<>>
                \/ /\ lastOp'.op = "undo" /\ lastOp'.user = p /\ lastOp'.ret # Null
                   /\ RedoIn(redoStacks', p) = Append(RedoOf(p), lastOp'.ret[1])
                   /\ lastOp'.ret[1] = Last(OwnedBy(History, p))
                \/ /\ lastOp'.op = "redo" /\ lastOp'.user = p /\ lastOp'.ret # Null
                   /\ RedoOf(p) = Append(RedoIn(redoStacks', p), lastOp'.ret[1])
                   /\ History' = Append(History, lastOp'.ret[1])]_vars

\* p committed twice, took both strokes back, and has just redone the first:
\* the second is still on its stack
C28_Witness ==
    /\ lastOp.op = "redo"
    /\ lastOp.ret # Null
    /\ strokeIdCounter = 2
    /\ author[1] = lastOp.user /\ author[2] = lastOp.user
    /\ Refs(History) = <<1>>
    /\ Refs(RedoOf(lastOp.user)) = <<2>>

\* C29: the redo stack of p is discarded only by p's own stroke_complete, by a
\* clear_canvas, or by p's disconnect.  In every step the stack of p either
\* stays as it was, or gains the stroke p's own undo removed, or loses its top
\* to p's own redo, or becomes empty through one of those three; a step taken
\* by another participant, clear_canvas aside, leaves it unchanged, and after
\* another participant's commit p's redo still returns the top of p's stack.
C29_RedoStackFrame ==
    [][\A p \in SocketIds :
        LET old == RedoOf(p)
            new == RedoIn(redoStacks', p)
            after == [roomStrokes |-> roomStrokes', redoStacks |-> redoStacks',
                      strokeIdCounter |-> strokeIdCounter']
        IN  /\ (new # old) =>
                  \/ /\ lastOp'.op = "undo" /\ lastOp'.user = p
                     /\ Len(new) = Len(old) + 1 /\ Front(new) = old
                  \/ /\ lastOp'.op = "redo" /\ lastOp'.user = p
                     /\ Len(old) = Len(new) + 1 /\ Front(old) = new
                  \/ /\ new = <<>>
                     /\ \/ lastOp'.op = "stroke_complete" /\ lastOp'.user = p
                        \/ lastOp'.op = "clear_canvas"
                        \/ lastOp'.op = "disconnect" /\ lastOp'.user = p
            /\ (lastOp'.user # p /\ lastOp'.op # "clear_canvas") => new = old
            /\ (lastOp'.op = "stroke_complete" /\ lastOp'.user # p /\ old # <<>>) =>
                  redoStroke(after, defaultRoom, p).ret = <<Last(old)>>]_vars

\* another participant has just committed a stroke while p holds an undone one
C29_Witness ==
    /\ lastOp.op = "stroke_complete"
    /\ Len(History) = 1
    /\ \E p \in InRoom \ {lastOp.user} : Refs(RedoOf(p)) = <<1>>

\* C30: state is synchronized on reconnection.  Once the page that came back
\* has handled every message sent to its new socket, the init message first,
\* its users Map lists exactly the other members of the room.
C30_ResyncOnReconnect ==
    (conn[NextSocket] = "active" /\ inbox[NextSocket] = <<>>) =>
        DOMAIN users[NextSocket] = Members(rooms, defaultRoom) \ {NextSocket}

\* a step in which the page makes the call op
Calls(op) == page'.lastCall.seq # page.lastCall.seq /\ page'.lastCall.op = op

\* C31: cursor updates are throttled.  The flag is up exactly while the timer is
\* pending; a call of the throttled onCursorMove while the flag is up is dropped
\* (nothing reaches the socket, the timer is left alone); a call while it is
\* down runs the function at once, raises the flag and sets the timer to fire
\* one limit later; the flag comes down only when the timer fires, not before
\* it is due; so two runs of the function are at least one limit apart.
C31_FlagIffTimer ==
    /\ page.inThrottle <=> page.timer # Null
    /\ page.timer # Null => page.timer = <<page.invokedAt[1] + ThrottleLimit>>

C31_CursorThrottled ==
    /\ []C31_FlagIffTimer
    /\ [][/\ (Calls("onCursorMove") /\ page.inThrottle) =>
               (/\ ~page'.lastCall.ran
                /\ page'.outbox = page.outbox
                /\ page'.timer = page.timer
                /\ page'.invokedAt = page.invokedAt
                /\ page'.inThrottle)
          /\ (Calls("onCursorMove") /\ ~page.inThrottle) =>
               (/\ page'.lastCall.ran
                /\ page'.invokedAt = <<page.clock>>
                /\ page'.inThrottle
                /\ page'.timer = <<page.clock + ThrottleLimit>>
                /\ (page.connected =>
                       page'.outbox = Append(page.outbox,
                                             [event |-> "cursor_move",
                                              data |-> <<CursorAt>>]))
                /\ (page.invokedAt # Null =>
                       page.clock >= page.invokedAt[1] + ThrottleLimit))
          /\ (page.inThrottle /\ ~page'.inThrottle) =>
               page.clock >= page.invokedAt[1] + ThrottleLimit
          /\ (~Calls("onCursorMove")) => page'.invokedAt = page.invokedAt]_vars

\* a mouse move has just been dropped: the function ran earlier, less than one
\* limit ago, time has passed since and the timer is still pending
C31_Witness ==
    /\ page.lastCall.op = "onCursorMove"
    /\ ~page.lastCall.ran
    /\ page.inThrottle
    /\ page.invokedAt # Null
    /\ page.clock = page.invokedAt[1] + 1
    /\ page.invokedAt[1] >= ThrottleLimit

\* the emit methods main.js calls directly, and the event each sends
EmitOps == {"emitDrawingStep", "emitStrokeComplete", "emitUndo", "emitRedo",
            "emitClearCanvas"}
EventOf(op) ==
    CASE op = "emitDrawingStep" -> "drawing_step"
      [] op = "emitStrokeComplete" -> "stroke_complete"
      [] op = "emitUndo" -> "undo"
      [] op = "emitRedo" -> "redo"
      [] op = "emitClearCanvas" -> "clear_canvas"
      [] op = "onCursorMove" -> "cursor_move"

\* C39: connected is true exactly when the last of the socket's 'connect' and
\* 'disconnect' events was 'connect', and false before the first.  While it is
\* false, a call of any emit method hands nothing to the socket; while it is
\* true the call hands over exactly its own event; and the socket is handed a
\* message only in the step of such a call, so a call dropped while
\* disconnected is not sent once the connection is back.
C39_ConnectedIsLastEvent == page.connected <=> page.socketEvent = "connect"

C39_EmitOnlyWhileConnected ==
    /\ []C39_ConnectedIsLastEvent
    /\ [][/\ \A op \in EmitOps \cup {"onCursorMove"} :
                (Calls(op) /\ ~page.connected) => page'.outbox = page.outbox
          /\ \A op \in EmitOps :
                (Calls(op) /\ page.connected) =>
                    (/\ Len(page'.outbox) = Len(page.outbox) + 1
                     /\ Front(page'.outbox) = page.outbox
                     /\ Last(page'.outbox).event = EventOf(op)
                     /\ page'.lastCall.ran)
          /\ (Len(page'.outbox) > Len(page.outbox)) =>
                (/\ page.connected
                 /\ page'.lastCall.seq # page.lastCall.seq
                 /\ Last(page'.outbox).event = EventOf(page'.lastCall.op))
          /\ (page'.connected # page.connected) =>
                (page'.socketEvent # page.socketEvent /\ page'.outbox = page.outbox)]_vars

\* a stroke_complete was dropped while the page was disconnected; the socket
\* has connected again since, and nothing has been handed to it
C39_Witness ==
    /\ page.lastCall.op = "emitStrokeComplete"
    /\ ~page.lastCall.ran
    /\ page.connected
    /\ page.socketEvent = "connect"
    /\ page.outbox = <<>>

\* C32: the handlers run one at a time, so for every interleaving of
\* stroke_complete, undo, redo, clear_canvas and disconnect from any sockets a
\* stroke is in one place only: no stroke is both in the history and on a redo
\* stack, none is twice in the history, none is on two redo stacks or twice on
\* one.
C32_StrokeInOnePlace ==
    /\ \A i, j \in 1..Len(History) : History[i].ref = History[j].ref => i = j
    /\ \A u \in SocketIds :
          /\ \A i \in 1..Len(History), j \in 1..Len(RedoOf(u)) :
                History[i].ref # RedoOf(u)[j].ref
          /\ \A i, j \in 1..Len(RedoOf(u)) :
                RedoOf(u)[i].ref = RedoOf(u)[j].ref => i = j
          /\ \A v \in SocketIds \ {u} :
                \A i \in 1..Len(RedoOf(u)), j \in 1..Len(RedoOf(v)) :
                    RedoOf(u)[i].ref # RedoOf(v)[j].ref

\* two participants committed and undid in turn, and one has just redone: its
\* stroke is back in the history while the other's is still on its stack
C32_Witness ==
    /\ lastOp.op = "redo"
    /\ lastOp.ret # Null
    /\ Refs(History) = <<2>>
    /\ \E u \in InRoom \ {lastOp.user} : Refs(RedoOf(u)) = <<1>>

\* the numbers of the broadcasts waiting in a client's inbox, in order
SeqsIn(box) ==
    LET bs == SelectSeq(box, LAMBDA m : m.event \in Broadcasts)
    IN  [i \in 1..Len(bs) |-> bs[i].seq]

\* C33: every member sees the broadcasts in the order in which the server
\* applied the operations.  The server gives each broadcast, in the step that
\* applies the operation, to every member of the room, the sender included;
\* what waits for a client is numbered upwards from what it has handled, and
\* each broadcast a client handles has a higher number than the one before; a
\* broadcast sent to a client is handled by it unless the client disconnects.
C33_InOrderInFlight ==
    \A c \in SocketIds :
        /\ Increasing(<<order.seen[c]>> \o SeqsIn(inbox[c]))
        /\ order.seen[c] <= order.applied
        /\ \A i \in 1..Len(inbox[c]) :
              inbox[c][i].event \in Broadcasts => inbox[c][i].seq <= order.applied

C34_NoGapNoRepeat ==
    \A c \in InRoom :
        LET box == inbox[c]
            hasInit == box # <<>> /\ box[1].event = "init"
            base == IF hasInit THEN box[1].asOf ELSE order.seen[c]
        IN  /\ \A i \in 2..Len(box) : box[i].event # "init"
            /\ SeqsIn(box) = [i \in 1..(order.applied - base) |-> base + i]

UndoThenRedo(p) == redoStroke(undoStroke(Store, defaultRoom, p).st, defaultRoom, p).st
StrokeSet(H) == {H[i] : i \in 1..Len(H)}

\* C36 as stated: undo followed at once by redo by p leaves the history with
\* the same strokes and p's redo stack as it was, whatever p owns.
C36_UndoRedoRoundTrip ==
    \A p \in SocketIds :
        LET after == UndoThenRedo(p)
        IN  /\ StrokeSet(HistoryIn(after.roomStrokes, defaultRoom)) = StrokeSet(History)
            /\ RedoIn(after.redoStacks, p) = RedoOf(p)

\* C36 amended: when p owns a stroke in the history, undo followed at once by
\* redo by p leaves the history with the same strokes and every redo stack as
\* it was; p's last stroke has moved to the tail, so the order is the same
\* exactly when that stroke was the last of the history.  When p owns none the
\* undo does nothing and the pair is a redo alone.  In a run, a redo by p that
\* follows p's own successful undo returns the stroke that undo returned and
\* appends it to the history.
C36_RoundTripWhenOwned ==
    \A p \in SocketIds :
        LET after == UndoThenRedo(p)
            H == HistoryIn(after.roomStrokes, defaultRoom)
            i == undoScan(History, p, Len(History))
        IN  /\ OwnedBy(History, p) # <<>> =>
                  /\ StrokeSet(H) = StrokeSet(History)
                  /\ Len(H) = Len(History)
                  /\ \A u \in SocketIds : RedoIn(after.redoStacks, u) = RedoOf(u)
                  /\ H = Append(SpliceOut(History, i), History[i])
                  /\ (H = History) <=> (i = Len(History))
            /\ OwnedBy(History, p) = <<>> =>
                  after = redoStroke(initRoom(Store, defaultRoom), defaultRoom, p).st

C36_UndoRedoRoundTripAmended ==
    /\ []C36_RoundTripWhenOwned
    /\ [][(/\ lastOp.op = "undo" /\ lastOp.ret # Null
           /\ lastOp'.op = "redo" /\ lastOp'.user = lastOp.user) =>
              (/\ lastOp'.ret = lastOp.ret
               /\ History' = Append(History, lastOp.ret[1])
               /\ RedoOf(lastOp.user) = Append(RedoIn(redoStacks', lastOp.user),
                                               lastOp.ret[1]))]_vars

\* p has redone the stroke it had undone from under another participant's
\* later stroke: it is back, at the tail
C36_Witness ==
    /\ lastOp.op = "redo"
    /\ lastOp.ret # Null
    /\ Refs(History) = <<2, 1>>
    /\ author[1] = lastOp.user
    /\ author[2] # lastOp.user
    /\ RedoOf(lastOp.user) = <<>>

\* the strokes (by identity) in the history, on the redo stacks, and the ones
\* made so far that are in neither
RefSet(H) == {H[i].ref : i \in 1..Len(H)}
StackRefsIn(rd) ==
    UNION {RefSet(IF defaultRoom \in DOMAIN rd THEN rd[defaultRoom][u] ELSE <<>>) :
             u \in (IF defaultRoom \in DOMAIN rd THEN DOMAIN rd[defaultRoom] ELSE {})}
GoneIn(rs, rd, n) == (1..n) \ (RefSet(HistoryIn(rs, defaultRoom)) \cup StackRefsIn(rd))
Gone == GoneIn(roomStrokes, redoStacks, strokeIdCounter)

\* C37: a stroke dropped from a redo stack never comes back.  A commit drops
\* the committer's stack, a disconnect the leaver's, a clear every stack and the
\* history; nothing else drops a stroke; and a stroke that is neither in the
\* history nor on a stack is in neither after any further step.
C37_DroppedStaysDropped ==
    [][LET gone == GoneIn(roomStrokes', redoStacks', strokeIdCounter')
       IN  /\ Gone \subseteq gone
           /\ (lastOp'.op = "stroke_complete" /\ strokeIdCounter' # strokeIdCounter) =>
                 gone = Gone \cup RefSet(RedoOf(lastOp'.user))
           /\ (lastOp'.op = "disconnect" /\ conn' # conn) =>
                 gone = Gone \cup RefSet(RedoOf(lastOp'.user))
           /\ (lastOp'.op = "clear_canvas") => gone = 1..strokeIdCounter
           /\ (lastOp'.op \in {"undo", "redo", "connection"}) => gone = Gone]_vars

\* p committed, undid, and committed again, which dropped the undone stroke;
\* its redo has just found nothing
C37_Witness ==
    /\ lastOp.op = "redo"
    /\ lastOp.ret = Null
    /\ clearedUpTo = 0
    /\ Gone = {1}
    /\ Refs(History) = <<2>>
    /\ author[1] = lastOp.user /\ author[2] = lastOp.user
    /\ conn[lastOp.user] = "active"

\* every stroke the store holds, in any room's history or redo stacks
AllStored ==
    UNION {StrokeSet(HistoryIn(roomStrokes, r)) : r \in RoomIds}
    \cup UNION {StrokeSet(RedoAt(redoStacks, r, u)) : r \in RoomIds, u \in SocketIds}

\* C38: one counter numbers the strokes of all rooms.  addStroke raises it by
\* one and gives the stroke the new value; getStrokes, undoStroke, redoStroke,
\* clearStrokes and cleanupUserHistory leave it as it is, for any room; so the
\* numbers of the strokes held in all rooms are distinct and at most the
\* counter, and a stroke committed later, after a clear too, has a number above
\* all of them.
C38_CounterOnStore ==
    /\ \A r \in RoomIds, u \in SocketIds :
          /\ getStrokes(Store, r).st.strokeIdCounter = strokeIdCounter
          /\ undoStroke(Store, r, u).st.strokeIdCounter = strokeIdCounter
          /\ redoStroke(Store, r, u).st.strokeIdCounter = strokeIdCounter
          /\ clearStrokes(Store, r).st.strokeIdCounter = strokeIdCounter
          /\ cleanupUserHistory(Store, r, u).st.strokeIdCounter = strokeIdCounter
          /\ LET a == addStroke(Store, r, Spread(PlainPayload, [userId |-> u]), now)
             IN  /\ a.st.strokeIdCounter = strokeIdCounter + 1
                 /\ a.ret.id = <<now, strokeIdCounter + 1>>
                 /\ \A x \in AllStored : x.id[2] < a.ret.id[2]
    /\ \A x \in AllStored : x.id[2] \in 1..strokeIdCounter
    /\ \A x, y \in AllStored : x.id[2] = y.id[2] => x = y

C38_OneCounterForAllRooms ==
    /\ []C38_CounterOnStore
    /\ [][/\ strokeIdCounter' \in {strokeIdCounter, strokeIdCounter + 1}
          /\ (strokeIdCounter' = strokeIdCounter + 1) <=>
                (\E r \in RoomIds :
                    /\ Len(HistoryIn(roomStrokes', r)) = Len(HistoryIn(roomStrokes, r)) + 1
                    /\ Last(HistoryIn(roomStrokes', r)).id[2] = strokeIdCounter + 1
                    /\ Last(HistoryIn(roomStrokes', r)).ref = strokeIdCounter + 1)]_vars

\* the first stroke, of one room, is gone from the store; the second was
\* committed in the other room and carries the number 2
C38_Witness ==
    /\ strokeIdCounter = 2
    /\ defaultRoom \in DOMAIN roomStrokes
    /\ roomStrokes[defaultRoom] = <<>>
    /\ redoStacks[defaultRoom] = EmptyMap
    /\ Len(HistoryIn(roomStrokes, "lobby")) = 1
    /\ HistoryIn(roomStrokes, "lobby")[1].id[2] = 2
    /\ AllStored = StrokeSet(HistoryIn(roomStrokes, "lobby"))

\* C40: removeStroke(roomId, strokeId) takes out the first stroke of the room's
\* history that has the id, whoever owns it, and returns true; no redo stack
\* changes, nor the counter, nor another room; when no stroke of the history
\* has the id it returns false and the history is as it was.
C40_RemoveFirstWithId ==
    [][lastOp'.op = "removeStroke" =>
        LET r == lastOp'.room
            id == lastOp'.user
            H == HistoryIn(roomStrokes, r)
            hits == {i \in 1..Len(H) : H[i].id = id}
            first == CHOOSE i \in hits : \A j \in hits : i <= j
        IN  /\ lastOp'.ret = <<hits # {}>>
            /\ hits # {} => HistoryIn(roomStrokes', r) = SpliceOut(H, first)
            /\ hits = {} => HistoryIn(roomStrokes', r) = H
            /\ \A B \in RoomIds, u \in SocketIds :
                  RedoAt(redoStacks', B, u) = RedoAt(redoStacks, B, u)
            /\ strokeIdCounter' = strokeIdCounter
            /\ \A B \in RoomIds \ {r} :
                  HistoryIn(roomStrokes', B) = HistoryIn(roomStrokes, B)]_vars

\* two participants' strokes carried the same client-supplied id; the call has
\* removed the first, the other participant's stroke stays
C40_Witness ==
    /\ lastOp.op = "removeStroke"
    /\ lastOp.ret = <<TRUE>>
    /\ lastOp.user = ForgedPayload.id
    /\ strokeIdCounter = 2
    /\ author[1] # author[2]
    /\ Refs(History) = <<2>>
    /\ History[1].id = ForgedPayload.id
    /\ \A u \in SocketIds : RedoOf(u) = <<>>

====
